---- MODULE Spec2Model ----
(***************************************************************************)
(* VRM -> Rigify conversion pipeline of vrm_rigify_for_unity.              *)
(*                                                                         *)
(* The module models the functions of vrm_rigify.py that rewrite the two   *)
(* skeleton graphs, and the operator VRM_OT_ToRigify.execute that chains   *)
(* them.  Each function is one action; the data a function receives from   *)
(* the host (bone lists, role maps, the generated rig) is drawn from       *)
(* bounded sets in the initial predicate of the specification that         *)
(* exercises it.  Bone names are strings, so prefixes such as "DEF-" and   *)
(* the regular expressions of the source are computed on the characters.   *)
(***************************************************************************)
EXTENDS Integers, Sequences, FiniteSets, TLC

VARIABLES
    pc,                   \* position of the run: the function that is next
    metarig_human_bones,  \* role map of the template (vrm1.humanoid.human_bones)
    vrm_human_bones,      \* role map of the source skeleton
    bone_mapping,         \* list of <<template bone name, source bone name>>
    vrm_object_name,      \* vrm_object.name, the name of the active armature object
    vrm_bones,            \* armature_vrm.bones: sequence of source bones
    other_bones,          \* bones of the scene's other armature object, "Armature"
    vrm_matrix_world,     \* vrm_object.matrix_world
    original_bone_names,  \* dict of store_original_bone_names, in insertion order
    bone_name_mapping,    \* dict standardized name -> original name
    metarig_edit_bones,   \* armature_metarig.edit_bones: sequence of template bones
    metarig_matrix_world, \* metarig.matrix_world
    rig_edit_bones,       \* armature_rig.edit_bones: sequence of rig bones
    mode,                 \* bpy.context.object.mode
    error,                \* exception raised by the function that ran last, or "none"
    reports,              \* sequence of self.report calls of the operator
    result,               \* return value of the operator, or "none"
    steps,                \* names of the functions that ran, in order
    snap,                 \* history: the rewritten structure before each rewrite
    removed,              \* history: edit_bones.remove calls, in order
    blender_version,      \* bpy.app.version[0], the host's major version
    vertex_groups,        \* mesh.vertex_groups of the copied mesh: sequence of groups
    writes,               \* history: the vg.name assignments, requested and resulting name
    rig_matrix_world      \* matrix_world of the generated rig object: a uniform scale

vars == <<pc, metarig_human_bones, vrm_human_bones, bone_mapping, vrm_object_name,
          vrm_bones, other_bones,
          vrm_matrix_world, original_bone_names, bone_name_mapping,
          metarig_edit_bones, metarig_matrix_world, rig_edit_bones, mode, error,
          reports, result, steps, snap, removed, blender_version, vertex_groups,
          writes, rig_matrix_world>>

roleVars == <<metarig_human_bones, vrm_human_bones>>

sourceVars == <<vrm_object_name, vrm_bones, other_bones, vrm_matrix_world>>

restoreVars == <<original_bone_names, bone_name_mapping>>

metarigVars == <<metarig_edit_bones, metarig_matrix_world>>

operatorVars == <<reports, result>>

histVars == <<snap, removed>>

hostVars == <<blender_version, vertex_groups, writes, rig_matrix_world>>

\* history: the value recorded before the n-th run of a function
BeforeRun(step, n) == SelectSeq(snap, LAMBDA e : e[1] = step)[n][2]

Before(step) == BeforeRun(step, 1)

HasRun(step) == \E i \in DOMAIN steps : steps[i] = step

(***************************************************************************)
(* Generic helpers.                                                        *)
(***************************************************************************)
Range(s) == {s[i] : i \in DOMAIN s}

RECURSIVE SeqsUpTo(_, _)
\* all sequences over S of length at most n
SeqsUpTo(S, n) ==
    IF n = 0 THEN {<<>>}
    ELSE LET shorter == SeqsUpTo(S, n - 1)
         IN  shorter \cup {Append(s, x) : s \in {t \in shorter : Len(t) = n - 1}, x \in S}

IsInjective(s) == \A i, j \in DOMAIN s : s[i] = s[j] => i = j

\* Python's str.startswith
StartsWith(name, prefix) ==
    /\ Len(name) >= Len(prefix)
    /\ SubSeq(name, 1, Len(prefix)) = prefix

(***************************************************************************)
(* Dictionaries.  A Python dict is a sequence of <<key, value>> pairs in   *)
(* insertion order; assigning to a key that is present replaces its value  *)
(* in place.                                                               *)
(***************************************************************************)
DictKeys(d) == [i \in DOMAIN d |-> d[i][1]]

DictValues(d) == [i \in DOMAIN d |-> d[i][2]]

DictHas(d, k) == \E i \in DOMAIN d : d[i][1] = k

DictGet(d, k) == d[CHOOSE i \in DOMAIN d : d[i][1] = k][2]

DictSet(d, k, v) ==
    IF DictHas(d, k)
      THEN [i \in DOMAIN d |-> IF d[i][1] = k THEN <<k, v>> ELSE d[i]]
      ELSE Append(d, <<k, v>>)

(***************************************************************************)
(* Role correspondence: mapping_metarig_and_vrm_model_bones.               *)
(*                                                                         *)
(* A role map is a dict role -> attribute value.  The attribute of an      *)
(* anatomical role is a human bone, a record with a node that carries a    *)
(* bone_name (empty when the role is unassigned).  The two reserved        *)
(* entries are bookkeeping values without a node.  getattr with default    *)
(* None yields None for a role the map does not hold.                      *)
(***************************************************************************)
ReservedRoles == <<"last_bone_names", "initial_automatic_bone_assignment">>

\* the anatomical roles of the model, in enumeration order
AnatomicalRoles == <<"hips", "spine", "head">>

None == [kind |-> "None"]

HumanBone(name) == [kind |-> "HumanBone", node |-> [bone_name |-> name]]

Bookkeeping == [kind |-> "Bookkeeping"]

hasattr(obj, attr) == attr \in DOMAIN obj

getattr(human_bones, bone_type) ==
    IF DictHas(human_bones, bone_type) THEN DictGet(human_bones, bone_type) ELSE None

RECURSIVE MappingLoop(_, _, _, _)
\* the for loop over metarig_human_bones.keys(), from key number i on
MappingLoop(m_human_bones, v_human_bones, i, acc) ==
    IF i > Len(m_human_bones) THEN acc
    ELSE LET bone_type         == DictKeys(m_human_bones)[i]
             metarig_bone_attr == getattr(m_human_bones, bone_type)
             vrm_bone_attr     == getattr(v_human_bones, bone_type)
         IN  IF bone_type \in Range(ReservedRoles)
               THEN MappingLoop(m_human_bones, v_human_bones, i + 1, acc)
             ELSE IF hasattr(metarig_bone_attr, "node") /\ hasattr(vrm_bone_attr, "node")
               THEN LET metarig_bone == metarig_bone_attr.node
                        vrm_bone     == vrm_bone_attr.node
                    IN  IF hasattr(vrm_bone, "bone_name") /\ vrm_bone.bone_name # ""
                          THEN MappingLoop(m_human_bones, v_human_bones, i + 1,
                                 Append(acc, <<metarig_bone.bone_name, vrm_bone.bone_name>>))
                          ELSE MappingLoop(m_human_bones, v_human_bones, i + 1, acc)
             ELSE MappingLoop(m_human_bones, v_human_bones, i + 1, acc)

mapping_metarig_and_vrm_model_bones(m_human_bones, v_human_bones) ==
    MappingLoop(m_human_bones, v_human_bones, 1, <<>>)

(***************************************************************************)
(* The role-assignment oracle (vrm.assign_vrm1_humanoid_human_bones_       *)
(* automatically) leaves each anatomical role unset, assigned to no bone   *)
(* (empty bone_name) or assigned to a bone; distinct roles get distinct    *)
(* bones.                                                                  *)
(***************************************************************************)
MetarigRoleBone == [hips |-> "spine", spine |-> "spine.001", head |-> "spine.006"]

VrmRoleBone == [hips |-> "Hips", spine |-> "Spine", head |-> "Head"]

RoleChoices == [Range(AnatomicalRoles) -> {"unset", "empty", "bound"}]

RECURSIVE BuildRoleMap(_, _, _, _)
BuildRoleMap(choice, names, i, acc) ==
    IF i > Len(AnatomicalRoles) THEN acc
    ELSE LET r == AnatomicalRoles[i]
         IN  BuildRoleMap(choice, names, i + 1,
               CASE choice[r] = "unset" -> acc
                 [] choice[r] = "empty" -> Append(acc, <<r, HumanBone("")>>)
                 [] OTHER               -> Append(acc, <<r, HumanBone(names[r])>>))

BookkeepingEntries == [i \in DOMAIN ReservedRoles |-> <<ReservedRoles[i], Bookkeeping>>]

\* role maps the oracle can leave on a skeleton whose role bones are `names`
AssignedRoleMaps(names) ==
    {BuildRoleMap(c, names, 1, <<>>) \o tail :
        c \in RoleChoices, tail \in {<<>>, BookkeepingEntries}}

\* defaults of the variables a specification does not use
IdleRoles == metarig_human_bones = <<>> /\ vrm_human_bones = <<>>

IdleSource ==
    /\ vrm_object_name = "Armature"
    /\ vrm_bones = <<>>
    /\ other_bones = <<>>
    /\ vrm_matrix_world = 0
    /\ original_bone_names = <<>>
    /\ bone_name_mapping = <<>>

IdleMetarig == metarig_edit_bones = <<>> /\ metarig_matrix_world = 0

IdleRig == rig_edit_bones = <<>>

IdleOperator == reports = <<>> /\ result = "none"

IdleHistory == snap = <<>> /\ removed = <<>>

IdleHost ==
    blender_version = 4 /\ vertex_groups = <<>> /\ writes = <<>> /\ rig_matrix_world = 1

InitMap ==
    /\ pc = "mapping"
    /\ bone_mapping = <<>>
    /\ mode = "OBJECT"
    /\ error = "none"
    /\ steps = <<>>
    /\ IdleRoles /\ IdleSource /\ IdleMetarig /\ IdleRig /\ IdleOperator /\ IdleHistory /\ IdleHost

\* lines 250-282: both role assignments, then the correspondence list
Mapping ==
    /\ pc = "mapping"
    /\ \E m \in AssignedRoleMaps(MetarigRoleBone), v \in AssignedRoleMaps(VrmRoleBone) :
         /\ metarig_human_bones' = m
         /\ vrm_human_bones' = v
         /\ bone_mapping' = mapping_metarig_and_vrm_model_bones(m, v)
    /\ steps' = Append(steps, "mapping_metarig_and_vrm_model_bones")
    /\ pc' = "mapped"
    /\ UNCHANGED <<hostVars, sourceVars, restoreVars, metarigVars, rig_edit_bones, mode, error,
                   operatorVars, histVars>>

NextMap == Mapping

SpecMap == InitMap /\ [][NextMap]_vars

\* the bone name a role map binds a role to, "" when the role is unset or unassigned
Binding(human_bones, r) ==
    IF DictHas(human_bones, r) /\ hasattr(DictGet(human_bones, r), "node")
      THEN DictGet(human_bones, r).node.bone_name
      ELSE ""

BoundInBoth ==
    {r \in Range(AnatomicalRoles) :
        Binding(metarig_human_bones, r) # "" /\ Binding(vrm_human_bones, r) # ""}

PairsOf(r) ==
    {i \in DOMAIN bone_mapping :
        bone_mapping[i] = <<Binding(metarig_human_bones, r), Binding(vrm_human_bones, r)>>}

\* C1: the correspondence list holds exactly one pair for every role bound to a
\* non-empty bone name in both role maps, and no pair for any other role.
C1_OnePairPerRoleBoundInBoth ==
    pc = "mapped" =>
        /\ \A r \in BoundInBoth : Cardinality(PairsOf(r)) = 1
        /\ Len(bone_mapping) = Cardinality(BoundInBoth)

(***************************************************************************)
(* Name restoration map: store_original_bone_names, the external           *)
(* standardization rename_vrm_model_bones_name, and                        *)
(* update_bone_name_mapping_after_rename.                                  *)
(*                                                                         *)
(* A source bone is a record; parent is the position of the parent bone in *)
(* armature.bones, 0 for a root.  The host keeps the names of one armature *)
(* distinct.                                                               *)
(***************************************************************************)
MaxSourceBones == 3

\* names a source skeleton uses before standardization
OriginalNames == {"J_Hips", "Hips", "hips", "root"}

\* names the standardization gives
StandardNames == {"Hips", "Spine", "Head", "J_Tail"}

VrmBone(name, head, tail, parent) ==
    [name |-> name, head_local |-> head, tail_local |-> tail, parent |-> parent]

BoneNames(bones) == [i \in DOMAIN bones |-> bones[i].name]

\* bone lists with distinct names from `names`, each bone a child of the one before
ChainsOf(names, n) ==
    {[i \in DOMAIN ns |-> VrmBone(ns[i], 0, 0, i - 1)] :
        ns \in {t \in SeqsUpTo(names, n) : IsInjective(t)}}

RECURSIVE StoreLoop(_, _, _)
StoreLoop(bones, i, acc) ==
    IF i > Len(bones) THEN acc
    ELSE StoreLoop(bones, i + 1, DictSet(acc, bones[i].name, bones[i].name))

\* lines 161-178
store_original_bone_names(bones) == StoreLoop(bones, 1, <<>>)

\* lines 214-216: bone_indices[i] = bone_name, positions counted from 1 here
BoneIndices(original) == [i \in DOMAIN original |-> <<i, DictKeys(original)[i]>>]

RECURSIVE UpdateLoop(_, _, _, _)
UpdateLoop(bones, bone_indices, i, acc) ==
    IF i > Len(bones) THEN acc
    ELSE IF DictHas(bone_indices, i)
      THEN UpdateLoop(bones, bone_indices, i + 1,
                      DictSet(acc, bones[i].name, DictGet(bone_indices, i)))
      ELSE UpdateLoop(bones, bone_indices, i + 1, acc)

\* a slip that pairs every bone with the first recorded name
UpdateFirstOnly(bones, original) ==
    UpdateLoop(bones, [i \in DOMAIN original |-> <<i, DictKeys(original)[1]>>], 1, <<>>)

\* a slip that pairs position i with the recorded name of position i + 1
UpdateShifted(bones, original) ==
    UpdateLoop(bones,
               [i \in DOMAIN original |->
                   <<i, DictKeys(original)[IF i < Len(original) THEN i + 1 ELSE 1]>>],
               1, <<>>)

\* lines 199-226
update_bone_name_mapping_after_rename(bones, original) ==
    UpdateLoop(bones, BoneIndices(original), 1, <<>>)

\* what vrm.bones_rename can leave of a bone list: every bone renamed or kept, names
\* distinct, order kept; the operator is external and its contract does not fix the
\* bone count, so one bone may be appended or the last one dropped
Renamings(bones) ==
    {[i \in DOMAIN bones |-> [bones[i] EXCEPT !.name = ns[i]]] :
        ns \in {t \in [DOMAIN bones -> StandardNames \cup Range(BoneNames(bones))] :
                  IsInjective(t)}}

Standardizations(bones) ==
    LET renamed == Renamings(bones)
    IN  renamed
        \cup {SubSeq(b, 1, Len(b) - 1) : b \in {r \in renamed : Len(r) > 0}}
        \cup UNION {{Append(b, VrmBone(n, 0, 0, Len(b))) :
                       n \in {m \in StandardNames : m \notin Range(BoneNames(b))}} :
                    b \in renamed}

InitRestore ==
    /\ pc = "store_original_bone_names"
    /\ vrm_object_name \in {"Armature", "Avatar"}
    /\ vrm_bones \in ChainsOf(OriginalNames, MaxSourceBones)
    /\ other_bones \in (IF vrm_object_name = "Armature" THEN {<<>>}
                        ELSE {<<>>} \cup ChainsOf({"J_Hips"}, 1))
    /\ vrm_matrix_world = 0
    /\ original_bone_names = <<>>
    /\ bone_name_mapping = <<>>
    /\ bone_mapping = <<>>
    /\ mode = "OBJECT"
    /\ error = "none"
    /\ steps = <<>>
    /\ IdleRoles /\ IdleMetarig /\ IdleRig /\ IdleOperator /\ IdleHistory /\ IdleHost

\* __init__.py line 74
StoreOriginal ==
    /\ pc = "store_original_bone_names"
    /\ original_bone_names' = store_original_bone_names(vrm_bones)
    /\ snap' = Append(snap, <<"store_original_bone_names", vrm_bones>>)
    /\ steps' = Append(steps, "store_original_bone_names")
    /\ pc' = "rename_vrm_model_bones_name"
    /\ UNCHANGED <<hostVars, roleVars, bone_mapping, sourceVars, bone_name_mapping, metarigVars,
                   rig_edit_bones, mode, error, operatorVars, removed>>

\* __init__.py line 77; vrm_rigify.py line 158 addresses the object named "Armature"
Standardize ==
    /\ pc = "rename_vrm_model_bones_name"
    /\ IF vrm_object_name = "Armature"
         THEN /\ vrm_bones' \in Standardizations(vrm_bones)
              /\ UNCHANGED other_bones
         ELSE /\ other_bones' \in Renamings(other_bones)
              /\ UNCHANGED vrm_bones
    /\ steps' = Append(steps, "rename_vrm_model_bones_name")
    /\ pc' = "update_bone_name_mapping_after_rename"
    /\ UNCHANGED <<hostVars, roleVars, bone_mapping, vrm_object_name, vrm_matrix_world, restoreVars,
                   metarigVars, rig_edit_bones, mode, error, operatorVars, histVars>>

\* __init__.py lines 80-81
UpdateMapping ==
    /\ pc = "update_bone_name_mapping_after_rename"
    /\ bone_name_mapping' = update_bone_name_mapping_after_rename(vrm_bones, original_bone_names)
    /\ steps' = Append(steps, "update_bone_name_mapping_after_rename")
    /\ pc' = "restoration_map_built"
    /\ UNCHANGED <<hostVars, roleVars, bone_mapping, sourceVars, original_bone_names, metarigVars,
                   rig_edit_bones, mode, error, operatorVars, histVars>>

NextRestore == StoreOriginal \/ Standardize \/ UpdateMapping

SpecRestore == InitRestore /\ [][NextRestore]_vars

RecordedBones == Before("store_original_bone_names")

\* C2: with N bones before and N bones after standardization the restoration map
\* has exactly N entries and no two standardized names map to one original name.
C2_RestorationMapInjective ==
    (pc = "restoration_map_built" /\ Len(RecordedBones) = Len(vrm_bones)) =>
        /\ Len(bone_name_mapping) = Len(vrm_bones)
        /\ IsInjective(DictKeys(bone_name_mapping))
        /\ IsInjective(DictValues(bone_name_mapping))

C2_Witness ==
    /\ pc = "restoration_map_built"
    /\ Len(RecordedBones) = MaxSourceBones
    /\ Len(vrm_bones) = MaxSourceBones
    /\ \E i \in DOMAIN vrm_bones : vrm_bones[i].name # RecordedBones[i].name

\* C3: the i-th standardized name maps to the i-th original name for every position
\* both lists have; bones beyond the original list get no entry, and nothing fails.
C3_PairedByPosition ==
    pc = "restoration_map_built" =>
        /\ error = "none"
        /\ \A i \in DOMAIN vrm_bones :
             IF i <= Len(RecordedBones)
               THEN /\ DictHas(bone_name_mapping, vrm_bones[i].name)
                    /\ DictGet(bone_name_mapping, vrm_bones[i].name) = RecordedBones[i].name
               ELSE ~DictHas(bone_name_mapping, vrm_bones[i].name)

C3_Witness ==
    /\ pc = "restoration_map_built"
    /\ Len(vrm_bones) > Len(RecordedBones)
    /\ Len(RecordedBones) >= 2
    /\ vrm_bones[1].name = RecordedBones[2].name

\* C26: the standardization step renames bones of the skeleton the run was invoked on
\* only, whatever that object is called: the bones of every other armature of the
\* scene keep their names.
C26_OnlyInvokedSkeletonStandardized ==
    [][pc = "rename_vrm_model_bones_name" => other_bones' = other_bones]_vars

(***************************************************************************)
(* Regular expressions of the source.  Every pattern of vrm_rigify.py has  *)
(* the shape: prefix alternatives, a stem, middle alternatives, and either *)
(* any tail or the end of the name.  A pattern record lists the            *)
(* alternatives ("" for an optional group) and says whether any tail may   *)
(* follow.  re.match anchors at the start of the name.                     *)
(***************************************************************************)
Pattern(pre, stem, mid, open) == [pre |-> pre, stem |-> stem, mid |-> mid, open |-> open]

re_match(pattern, name) ==
    \E p \in pattern.pre, m \in pattern.mid :
        LET fixed == p \o pattern.stem \o m
        IN  IF pattern.open THEN StartsWith(name, fixed) ELSE name = fixed

\* lines 60-79
matche_objects_by_name_patterns(objects, patterns) ==
    SelectSeq(objects, LAMBDA node : \E i \in DOMAIN patterns : re_match(patterns[i], node.name))

\* edit_bones.remove(bone): the collection without the bone at position i
RemoveAt(bones, i) == SubSeq(bones, 1, i - 1) \o SubSeq(bones, i + 1, Len(bones))

RemoveNamed(bones, name) == SelectSeq(bones, LAMBDA b : b.name # name)

(***************************************************************************)
(* Topology pruner: remove_or_log_unmapped_metarig_bones.                  *)
(*                                                                         *)
(* A template bone is a record.  The second loop iterates edit_bones while *)
(* it removes from it.  The host's collection iterator steps to the        *)
(* following bone before it hands the current one to the loop body, so     *)
(* after the current bone is removed the loop continues with the bone that *)
(* followed it, which then stands at the position the removed one had.     *)
(***************************************************************************)
MaxTemplateBones == 4

TemplateNames ==
    {"palm.01.L", "pelvis.L", "pelvis.R", "breast.L", "spine.003", "spine", "f_palm.L"}

MetarigBone(name, head, tail) ==
    [name |-> name, head |-> head, tail |-> tail, select |-> FALSE]

TemplatesOf(names, n) ==
    {[i \in DOMAIN ns |-> MetarigBone(ns[i], 0, 0)] :
        ns \in {t \in SeqsUpTo(names, n) : IsInjective(t)}}

\* line 301, ^palm.*$ , but without the .* : a slip that matches only "palm"
PalmExact == <<Pattern({""}, "palm", {""}, FALSE)>>

\* line 301: r"^palm.*$"
PalmPatterns == <<Pattern({""}, "palm", {""}, TRUE)>>

\* the position the loop of line 306 visits after removing the bone at position i,
\* if the iteration went by index as over a Python list
AfterRemoveByIndex(i) == i + 1

\* the position the loop of line 306 visits after removing the bone at position i
AfterRemove(i) == i

\* line 317 with the test inverted
UnmappedIsLoggedInverted(name) == name \in {"spine.003"}

\* line 317: an unmapped bone other than spine.003 is left in place
UnmappedIsLogged(name) == name \notin {"spine.003"}

\* lines 294-295
MappedMetarigBoneNames(mapping) == {mapping[i][1] : i \in DOMAIN mapping}

RECURSIVE PalmLoop(_, _, _)
\* lines 300-303: remove every bone of the list of matches
PalmLoop(st, matches, i) ==
    IF i > Len(matches) THEN st
    ELSE PalmLoop([bones   |-> RemoveNamed(st.bones, matches[i].name),
                   removed |-> Append(st.removed, matches[i].name)],
                  matches, i + 1)

RECURSIVE UnmappedLoop(_, _, _)
\* lines 306-322: i is the position of the bone the iterator hands out
UnmappedLoop(st, mapped, i) ==
    IF i > Len(st.bones) THEN st
    ELSE LET name    == st.bones[i].name
             deleted == [bones   |-> RemoveAt(st.bones, i),
                         removed |-> Append(st.removed, name)]
         IN  IF name \in mapped
               THEN UnmappedLoop(st, mapped, i + 1)
             ELSE IF name \in {"pelvis.L", "pelvis.R"}
               THEN UnmappedLoop(deleted, mapped, AfterRemove(i))
             ELSE IF name \in {"breast.L", "breast.R"}
               THEN UnmappedLoop(deleted, mapped, AfterRemove(i))
             ELSE IF UnmappedIsLogged(name)
               THEN UnmappedLoop(st, mapped, i + 1)
             ELSE UnmappedLoop(deleted, mapped, AfterRemove(i))

\* lines 285-322; the result is the bone list and the log of removals
remove_or_log_unmapped_metarig_bones(bones, mapping, log) ==
    UnmappedLoop(
        PalmLoop([bones |-> bones, removed |-> log],
                 matche_objects_by_name_patterns(bones, PalmPatterns), 1),
        MappedMetarigBoneNames(mapping), 1)

\* correspondence lists that name the template bones of a set, in a fixed order
RECURSIVE MappingsNaming(_)
MappingsNaming(names) ==
    IF names = <<>> THEN {<<>>}
    ELSE LET rest == MappingsNaming(Tail(names))
         IN  rest \cup {<<<<Head(names), "S_" \o Head(names)>>>> \o m : m \in rest}

MappableTemplateNames == <<"palm.01.L", "pelvis.L", "spine.003", "spine">>

InitPrune ==
    /\ pc = "remove_or_log_unmapped_metarig_bones"
    /\ metarig_edit_bones \in TemplatesOf(TemplateNames, MaxTemplateBones)
    /\ metarig_matrix_world = 0
    /\ bone_mapping \in MappingsNaming(MappableTemplateNames)
    /\ mode = "OBJECT"
    /\ error = "none"
    /\ steps = <<>>
    /\ IdleRoles /\ IdleSource /\ IdleRig /\ IdleOperator /\ IdleHistory /\ IdleHost

\* __init__.py line 92, and a second call on the pruned template
Prune ==
    /\ pc \in {"remove_or_log_unmapped_metarig_bones", "pruned"}
    /\ LET out == remove_or_log_unmapped_metarig_bones(metarig_edit_bones, bone_mapping, removed)
       IN  /\ metarig_edit_bones' = out.bones
           /\ removed' = out.removed
    /\ snap' = Append(snap, <<"remove_or_log_unmapped_metarig_bones", metarig_edit_bones>>)
    /\ steps' = Append(steps, "remove_or_log_unmapped_metarig_bones")
    /\ pc' = IF pc = "pruned" THEN "pruned_twice" ELSE "pruned"
    /\ UNCHANGED <<hostVars, roleVars, bone_mapping, sourceVars, restoreVars, metarig_matrix_world,
                   rig_edit_bones, mode, error, operatorVars>>

NextPrune == Prune

SpecPrune == InitPrune /\ [][NextPrune]_vars

IsPalm(name) == Len(name) >= 4 /\ SubSeq(name, 1, 4) = "palm"

IsMapped(name) == \E i \in DOMAIN bone_mapping : bone_mapping[i][1] = name

DisposableNames == {"pelvis.L", "pelvis.R", "breast.L", "breast.R", "spine.003"}

Deletable(name) == IsPalm(name) \/ (~IsMapped(name) /\ name \in DisposableNames)

TemplateBeforeSecondRun == BeforeRun("remove_or_log_unmapped_metarig_bones", 2)

TemplateBeforePruning == Before("remove_or_log_unmapped_metarig_bones")

\* C4: a second run of the pruner leaves the bone set of the first run, deletes
\* nothing and does not fail, also when deletable bones are adjacent in edit_bones.
C4_PruningIdempotent ==
    pc = "pruned_twice" =>
        /\ metarig_edit_bones = TemplateBeforeSecondRun
        /\ Len(removed) = Len(TemplateBeforePruning) - Len(TemplateBeforeSecondRun)
        /\ error = "none"

C4_Witness ==
    /\ pc = "pruned_twice"
    /\ \E i \in 1..(Len(TemplateBeforePruning) - 2) :
         /\ \A j \in {i, i + 1, i + 2} :
              TemplateBeforePruning[j].name \in DisposableNames /\ ~IsMapped(TemplateBeforePruning[j].name)

\* C5: after one run no bone matches ^palm.*$, mapped or not, and no unmapped bone
\* is named pelvis.L, pelvis.R, breast.L, breast.R or spine.003.
C5_DisposableBonesGone ==
    pc = "pruned" =>
        \A i \in DOMAIN metarig_edit_bones :
            LET name == metarig_edit_bones[i].name
            IN  /\ ~IsPalm(name)
                /\ ~(name \in DisposableNames /\ ~IsMapped(name))

C5_Witness ==
    /\ pc = "pruned"
    /\ IsMapped("palm.01.L")
    /\ \E i \in DOMAIN TemplateBeforePruning : TemplateBeforePruning[i].name = "palm.01.L"
    /\ \E i \in 1..(Len(TemplateBeforePruning) - 1) :
         /\ TemplateBeforePruning[i].name = "pelvis.L" /\ ~IsMapped("pelvis.L")
         /\ TemplateBeforePruning[i + 1].name = "pelvis.R"

\* C6: every bone that is no palm bone and is mapped, or unmapped with a name
\* outside the five disposable names, is still present, name unchanged, in order.
C6_OtherBonesKept ==
    pc = "pruned" =>
        /\ metarig_edit_bones = SelectSeq(TemplateBeforePruning, LAMBDA b : ~Deletable(b.name))
        /\ Range(removed) = {TemplateBeforePruning[i].name : i \in {j \in DOMAIN TemplateBeforePruning : Deletable(TemplateBeforePruning[j].name)}}

C6_Witness ==
    /\ pc = "pruned"
    /\ Len(removed) > 0
    /\ \E i, j \in DOMAIN metarig_edit_bones :
         /\ metarig_edit_bones[i].name = "pelvis.L"
         /\ metarig_edit_bones[j].name = "f_palm.L"

(***************************************************************************)
(* Geometric aligner: position_metarig_bones_to_vrm_model.                 *)
(*                                                                         *)
(* Positions and world transforms are values of a small set; the template  *)
(* a generator creates has position 0 everywhere.  Looking a bone up by a  *)
(* name the collection does not hold raises KeyError, which ends the       *)
(* function with the assignments made so far in place.                     *)
(***************************************************************************)
MaxCoord == 2

Coords == 1..MaxCoord

IndexOfName(bones, name) ==
    IF \E i \in DOMAIN bones : bones[i].name = name
      THEN CHOOSE i \in DOMAIN bones : bones[i].name = name
      ELSE 0

HasBone(bones, name) == IndexOfName(bones, name) # 0

\* lines 350-351 with head and tail exchanged
PositionBoneSwapped(metarig_bone, vrm_bone) ==
    [metarig_bone EXCEPT !.select = TRUE,
                         !.head = vrm_bone.tail_local,
                         !.tail = vrm_bone.head_local]

\* lines 349-351
PositionBone(metarig_bone, vrm_bone) ==
    [metarig_bone EXCEPT !.select = TRUE,
                         !.head = vrm_bone.head_local,
                         !.tail = vrm_bone.tail_local]

RECURSIVE PositionLoop(_, _, _, _)
\* lines 343-351
PositionLoop(m_bones, v_bones, mapping, k) ==
    IF k > Len(mapping) THEN [bones |-> m_bones, error |-> "none"]
    ELSE LET i == IndexOfName(m_bones, mapping[k][1])
             j == IndexOfName(v_bones, mapping[k][2])
         IN  IF i = 0 \/ j = 0
               THEN [bones |-> m_bones, error |-> "KeyError"]
               ELSE PositionLoop([m_bones EXCEPT ![i] = PositionBone(m_bones[i], v_bones[j])],
                                 v_bones, mapping, k + 1)

\* lines 325-351
position_metarig_bones_to_vrm_model(m_bones, v_bones, mapping) ==
    PositionLoop(m_bones, v_bones, mapping, 1)

AlignTemplate ==
    <<MetarigBone("spine", 0, 0), MetarigBone("spine.001", 0, 0), MetarigBone("hand.L", 0, 0)>>

\* a two-bone source skeleton with every choice of joint positions
AlignSources ==
    {<<VrmBone("Hips", g[1], g[2], 0), VrmBone("Spine", g[3], g[4], 1)>> :
        g \in [1..4 -> Coords]}

\* correspondence lists over a few template and source names; no template bone and no
\* source bone is named twice, and "" is the template name of an unassigned role
AlignMappings ==
    {m \in SeqsUpTo({"spine", "spine.001", ""} \X {"Hips", "Spine"}, 2) :
        /\ IsInjective([i \in DOMAIN m |-> m[i][1]])
        /\ IsInjective([i \in DOMAIN m |-> m[i][2]])}

InitAlign ==
    /\ pc = "position_metarig_bones_to_vrm_model"
    /\ metarig_edit_bones = AlignTemplate
    /\ metarig_matrix_world = 0
    /\ vrm_object_name = "Armature"
    /\ vrm_bones \in AlignSources
    /\ other_bones = <<>>
    /\ vrm_matrix_world \in Coords
    /\ original_bone_names = <<>>
    /\ bone_name_mapping = <<>>
    /\ bone_mapping \in AlignMappings
    /\ mode = "OBJECT"
    /\ error = "none"
    /\ steps = <<>>
    /\ IdleRoles /\ IdleRig /\ IdleOperator /\ IdleHistory /\ IdleHost

\* __init__.py line 93
Position ==
    /\ pc = "position_metarig_bones_to_vrm_model"
    /\ LET out == position_metarig_bones_to_vrm_model(metarig_edit_bones, vrm_bones, bone_mapping)
       IN  /\ metarig_edit_bones' = out.bones
           /\ error' = out.error
    /\ metarig_matrix_world' = vrm_matrix_world
    /\ snap' = Append(snap, <<"position_metarig_bones_to_vrm_model", metarig_edit_bones>>)
    /\ steps' = Append(steps, "position_metarig_bones_to_vrm_model")
    /\ pc' = "positioned"
    /\ UNCHANGED <<hostVars, roleVars, bone_mapping, sourceVars, restoreVars, rig_edit_bones, mode,
                   operatorVars, removed>>

NextAlign == Position

SpecAlign == InitAlign /\ [][NextAlign]_vars

TemplateBeforeAligning == Before("position_metarig_bones_to_vrm_model")

MaxRigBones == 4

\* an edit bone of the generated rig.  head and tail are positions (a value that is
\* only copied, or a point with coordinates where a step computes with it), length
\* what the host derives from them, length_scale the factor a step applied to the
\* length; collections and layers are the memberships, constraints the pose
\* constraints of the bone
RigBone(id, name, parent, use_deform) ==
    [id |-> id, name |-> name, parent |-> parent, use_deform |-> use_deform,
     head |-> 0, tail |-> 0, length |-> <<1, 1>>, length_scale |-> <<1, 1>>,
     collections |-> {}, layers |-> 0, constraints |-> <<>>]

BoneIds(bones) == {bones[i].id : i \in DOMAIN bones}

BoneById(bones, id) == bones[CHOOSE i \in DOMAIN bones : bones[i].id = id]

RECURSIVE ParentIndex(_, _, _, _)
\* Bone.parent_index: how many parent links lead from bone id up to ancestor, 0 if none
ParentIndex(bones, id, ancestor, fuel) ==
    IF fuel = 0 \/ id \notin BoneIds(bones) THEN 0
    ELSE LET parent == BoneById(bones, id).parent
         IN  IF parent = 0 THEN 0
             ELSE IF parent = ancestor THEN 1
             ELSE LET up == ParentIndex(bones, parent, ancestor, fuel - 1)
                  IN  IF up = 0 THEN 0 ELSE up + 1

RECURSIVE SortedByKey(_, _, _)
\* the bones of a list whose key is k, k + 1, ..., in list order within one key
SortedByKey(bones, key(_), k) ==
    IF k > Len(bones) THEN <<>>
    ELSE SelectSeq(bones, LAMBDA b : key(b) = k) \o SortedByKey(bones, key, k + 1)

\* Bone.children_recursive: the descendants, nearest first
children_recursive(bones, bone) ==
    LET depth(b) == ParentIndex(bones, b.id, bone.id, Len(bones))
    IN  SortedByKey(bones, depth, 1)

\* edit_bones.remove(bone)
RemoveBone(bones, id) ==
    LET kept == SelectSeq(bones, LAMBDA b : b.id # id)
    IN  [i \in DOMAIN kept |-> IF kept[i].parent = id THEN [kept[i] EXCEPT !.parent = 0]
                                                       ELSE kept[i]]

\* parent assignments without a cycle
IsForest(bones) ==
    \A i \in DOMAIN bones :
        /\ bones[i].parent \in BoneIds(bones) \cup {0}
        /\ ParentIndex(bones, bones[i].id, bones[i].id, Len(bones)) = 0

\* the rigs the generator can return over a list of names: bone i has id i, any forest
RigsOver(names) ==
    {r \in {[i \in DOMAIN names |->
                RigBone(i, names[i], par[i], StartsWith(names[i], "DEF-"))] :
              par \in [DOMAIN names -> 0..Len(names)]} : IsForest(r)}

RECURSIVE SubSeqsOf(_)
\* the subsequences of a sequence
SubSeqsOf(s) ==
    IF s = <<>> THEN {<<>>}
    ELSE LET rest == SubSeqsOf(Tail(s))
         IN  rest \cup {<<Head(s)>> \o t : t \in rest}

(***************************************************************************)
(* Facial subtree deletion: removed_rigify_rig_facial_bones.               *)
(***************************************************************************)
\* lines 468-482
rig_bones_to_delete_by_name_pattern ==
    << Pattern({"ORG-", "DEF-"}, "forehead", {""}, TRUE),
       Pattern({"ORG-", "DEF-"}, "temple", {""}, TRUE),
       Pattern({"", "ORG-", "DEF-"}, "brow", {""}, TRUE),
       Pattern({"", "MCH-", "ORG-", "DEF-"}, "lid.", {"B", "T"}, TRUE),
       Pattern({"", "ORG-", "DEF-"}, "ear.", {"L", "R"}, TRUE),
       Pattern({"", "MCH-", "ORG-", "DEF-"}, "tongue", {""}, TRUE),
       Pattern({"", "ORG-", "DEF-"}, "chin", {""}, TRUE),
       Pattern({"", "ORG-", "DEF-"}, "cheek.", {"B", "T"}, TRUE),
       Pattern({"", "ORG-"}, "teeth.", {"B", "T"}, FALSE),
       Pattern({"", "ORG-", "DEF-"}, "nose", {""}, TRUE),
       Pattern({"", "ORG-", "DEF-"}, "lip", {""}, TRUE),
       Pattern({"", "MCH-", "ORG-", "DEF-"}, "jaw", {""}, TRUE),
       Pattern({"MCH-"}, "mouth_lock", {""}, FALSE) >>

\* lines 492-493 without the membership test
ScheduleAlways(bones_to_remove, bone) == Append(bones_to_remove, bone)

\* lines 492-493
Schedule(bones_to_remove, bone) ==
    IF bone \notin Range(bones_to_remove) THEN Append(bones_to_remove, bone)
    ELSE bones_to_remove

RECURSIVE ScheduleAll(_, _, _)
\* line 491: for bone in bone_root.children_recursive + [bone_root]
ScheduleAll(bones_to_remove, subtree, i) ==
    IF i > Len(subtree) THEN bones_to_remove
    ELSE ScheduleAll(Schedule(bones_to_remove, subtree[i]), subtree, i + 1)

RECURSIVE CollectLoop(_, _, _, _)
\* lines 486-493
CollectLoop(bones, matches, i, bones_to_remove) ==
    IF i > Len(matches) THEN bones_to_remove
    ELSE CollectLoop(bones, matches, i + 1,
           ScheduleAll(bones_to_remove,
                       Append(children_recursive(bones, matches[i]), matches[i]), 1))

RECURSIVE RemoveLoop(_, _, _)
\* lines 496-498; removing a bone that is no longer in the armature fails
RemoveLoop(st, bones_to_remove, i) ==
    IF i > Len(bones_to_remove) THEN st
    ELSE IF bones_to_remove[i].id \notin BoneIds(st.bones)
      THEN [st EXCEPT !.error = "ReferenceError"]
      ELSE RemoveLoop([bones   |-> RemoveBone(st.bones, bones_to_remove[i].id),
                       removed |-> Append(st.removed, bones_to_remove[i].name),
                       error   |-> "none"],
                      bones_to_remove, i + 1)

\* lines 459-498
removed_rigify_rig_facial_bones(bones, log) ==
    RemoveLoop([bones |-> bones, removed |-> log, error |-> "none"],
               CollectLoop(bones,
                           matche_objects_by_name_patterns(bones, rig_bones_to_delete_by_name_pattern),
                           1, <<>>),
               1)

FacialRigNames ==
    <<"DEF-jaw", "ORG-teeth.T", "DEF-teeth.T", "ORG-face", "brow.T.L", "MCH-mouth_lock.001">>

InitFacial ==
    /\ pc = "removed_rigify_rig_facial_bones"
    /\ \E names \in {n \in SubSeqsOf(FacialRigNames) : Len(n) <= MaxRigBones} :
         rig_edit_bones \in RigsOver(names)
    /\ bone_mapping = <<>>
    /\ mode = "OBJECT"
    /\ error = "none"
    /\ steps = <<>>
    /\ IdleRoles /\ IdleSource /\ IdleMetarig /\ IdleOperator /\ IdleHistory /\ IdleHost

\* __init__.py line 105
RemoveFacial ==
    /\ pc = "removed_rigify_rig_facial_bones"
    /\ LET out == removed_rigify_rig_facial_bones(rig_edit_bones, removed)
       IN  /\ rig_edit_bones' = out.bones
           /\ removed' = out.removed
           /\ error' = out.error
    /\ snap' = Append(snap, <<"removed_rigify_rig_facial_bones", rig_edit_bones>>)
    /\ steps' = Append(steps, "removed_rigify_rig_facial_bones")
    /\ pc' = "facial_removed"
    /\ UNCHANGED <<hostVars, roleVars, bone_mapping, sourceVars, restoreVars, metarigVars, mode,
                   operatorVars>>

NextFacial == RemoveFacial

SpecFacial == InitFacial /\ [][NextFacial]_vars

RigBeforeFacial == Before("removed_rigify_rig_facial_bones")

IsFacial(name) ==
    \E i \in DOMAIN rig_bones_to_delete_by_name_pattern :
        re_match(rig_bones_to_delete_by_name_pattern[i], name)

RECURSIVE HasFacialAncestor(_, _, _)
HasFacialAncestor(bones, id, fuel) ==
    /\ fuel > 0
    /\ BoneById(bones, id).parent # 0
    /\ \/ IsFacial(BoneById(bones, BoneById(bones, id).parent).name)
       \/ HasFacialAncestor(bones, BoneById(bones, id).parent, fuel - 1)

Doomed(bones) ==
    {b \in Range(bones) : IsFacial(b.name) \/ HasFacialAncestor(bones, b.id, Len(bones))}

\* C8: after the facial deletion the rig holds no bone that matched a facial pattern
\* and no descendant of one, every other bone is still there, and every deleted bone
\* was removed exactly once.
C8_FacialSubtreesDeleted ==
    pc = "facial_removed" =>
        /\ error = "none"
        /\ BoneIds(rig_edit_bones) = BoneIds(RigBeforeFacial) \ {b.id : b \in Doomed(RigBeforeFacial)}
        /\ \A i \in DOMAIN rig_edit_bones :
             rig_edit_bones[i].name = BoneById(RigBeforeFacial, rig_edit_bones[i].id).name
        /\ Len(removed) = Cardinality(Doomed(RigBeforeFacial))
        /\ Range(removed) = {b.name : b \in Doomed(RigBeforeFacial)}

C8_Witness ==
    /\ pc = "facial_removed"
    /\ Len(rig_edit_bones) = 1
    /\ \E i, j, k \in DOMAIN RigBeforeFacial :
         /\ IsFacial(RigBeforeFacial[i].name) /\ IsFacial(RigBeforeFacial[j].name)
         /\ RigBeforeFacial[i].parent = RigBeforeFacial[j].id
         /\ i < j
         /\ ~IsFacial(RigBeforeFacial[k].name)
         /\ RigBeforeFacial[k].parent = RigBeforeFacial[i].id

(***************************************************************************)
(* Deformation rename: rename_rig_bones_to_match_vrm_model_vertex_groups.  *)
(*                                                                         *)
(* The host keeps the bone names of an armature distinct: a bone that is   *)
(* assigned a name another bone holds receives that name with the first    *)
(* free numeric suffix instead.                                            *)
(***************************************************************************)
NameTaken(bones, id, name) == \E i \in DOMAIN bones : bones[i].id # id /\ bones[i].name = name

\* the name the host gives bone id when `name` is assigned to it (line 530, line 535)
UniqueName(bones, id, name) ==
    IF ~NameTaken(bones, id, name) THEN name
    ELSE IF ~NameTaken(bones, id, name \o ".001") THEN name \o ".001"
    ELSE IF ~NameTaken(bones, id, name \o ".002") THEN name \o ".002"
    ELSE name \o ".003"

SetName(bones, i, name) ==
    [bones EXCEPT ![i].name = UniqueName(bones, bones[i].id, name)]

\* lines 516-521: the rig bone a pair addresses
RigBoneNameFor(metarig_bone_name) ==
    IF metarig_bone_name \in {"eye.L", "eye.R"}
      THEN "ORG-" \o metarig_bone_name
      ELSE "DEF-" \o metarig_bone_name

\* lines 525-527
TargetName(vrm_bone_name, name_mapping) ==
    IF name_mapping # <<>> /\ DictHas(name_mapping, vrm_bone_name)
      THEN DictGet(name_mapping, vrm_bone_name)
      ELSE vrm_bone_name

\* line 522 with the assert statement compiled away
DeformAssertStripped(rig_bone) == TRUE

\* line 522: assert rig_bone.use_deform
DeformAsserted(rig_bone) == rig_bone.use_deform

RECURSIVE RenameLoop(_, _, _, _)
\* lines 514-530
RenameLoop(bones, mapping, name_mapping, k) ==
    IF k > Len(mapping) THEN [bones |-> bones, error |-> "none"]
    ELSE LET metarig_bone_name == mapping[k][1]
             i == IndexOfName(bones, RigBoneNameFor(metarig_bone_name))
             target_name == TargetName(mapping[k][2], name_mapping)
         IN  IF i = 0
               THEN [bones |-> bones, error |-> "KeyError"]
             ELSE IF metarig_bone_name \in {"eye.L", "eye.R"}
               THEN RenameLoop(SetName([bones EXCEPT ![i].use_deform = TRUE], i, target_name),
                               mapping, name_mapping, k + 1)
             ELSE IF ~DeformAsserted(bones[i])
               THEN [bones |-> bones, error |-> "AssertionError"]
             ELSE RenameLoop(SetName(bones, i, target_name), mapping, name_mapping, k + 1)

\* the function without lines 533-536
RenameRootLeftOut(bones) == bones

\* lines 533-536: the first bone named "root" becomes "Root"
RenameRoot(bones) ==
    LET i == IndexOfName(bones, "root")
    IN  IF i = 0 THEN bones ELSE SetName(bones, i, "Root")

\* lines 501-536
rename_rig_bones_to_match_vrm_model_vertex_groups(bones, mapping, name_mapping) ==
    LET out == RenameLoop(bones, mapping, name_mapping, 1)
    IN  IF out.error = "none" THEN [out EXCEPT !.bones = RenameRoot(out.bones)] ELSE out

RenameRigNames == <<"root", "hips", "DEF-spine", "DEF-hand.L", "ORG-eye.L">>

\* generated rigs over a list of names, no parents: every DEF- bone deforms or, for a
\* generator that leaves the flag off, does not; other bones do not deform
FlatRigsOver(names) ==
    {[i \in DOMAIN names |-> RigBone(i, names[i], 0, d[i])] :
        d \in {f \in [DOMAIN names -> BOOLEAN] :
                 \A i \in DOMAIN names : f[i] => StartsWith(names[i], "DEF-")}}

RenamePairs == <<<<"spine", "Hips">>, <<"eye.L", "Eye_L">>, <<"hand.L", "Hand_L">>>>

\* restoration maps: none recorded, or original names for the bones Hips and Hand_L
RenameNameMappings ==
    {<<>>} \cup
    {<<<<"Hips", o[1]>>, <<"Hand_L", o[2]>>>> :
        o \in {t \in [1..2 -> OriginalNames] : t[1] # t[2]}}

InitRename ==
    /\ pc = "rename_rig_bones_to_match_vrm_model_vertex_groups"
    /\ \E names \in {n \in SubSeqsOf(RenameRigNames) : Len(n) <= MaxRigBones} :
         rig_edit_bones \in FlatRigsOver(names)
    /\ bone_mapping \in SubSeqsOf(RenamePairs)
    /\ bone_name_mapping \in RenameNameMappings
    /\ vrm_object_name = "Armature"
    /\ vrm_bones = <<>>
    /\ other_bones = <<>>
    /\ vrm_matrix_world = 0
    /\ original_bone_names = <<>>
    /\ mode = "OBJECT"
    /\ error = "none"
    /\ steps = <<>>
    /\ IdleRoles /\ IdleMetarig /\ IdleOperator /\ IdleHistory /\ IdleHost

\* __init__.py line 106
Rename ==
    /\ pc = "rename_rig_bones_to_match_vrm_model_vertex_groups"
    /\ LET out == rename_rig_bones_to_match_vrm_model_vertex_groups(
                      rig_edit_bones, bone_mapping, bone_name_mapping)
       IN  /\ rig_edit_bones' = out.bones
           /\ error' = out.error
    /\ snap' = Append(snap, <<"rename_rig_bones_to_match_vrm_model_vertex_groups", rig_edit_bones>>)
    /\ steps' = Append(steps, "rename_rig_bones_to_match_vrm_model_vertex_groups")
    /\ pc' = "renamed"
    /\ UNCHANGED <<hostVars, roleVars, bone_mapping, sourceVars, restoreVars, metarigVars, mode,
                   operatorVars, removed>>

NextRename == Rename

SpecRename == InitRename /\ [][NextRename]_vars

RigBeforeRename == Before("rename_rig_bones_to_match_vrm_model_vertex_groups")

\* the name the claim expects for the source bone of a pair
ExpectedName(vrm_bone_name) ==
    IF DictHas(bone_name_mapping, vrm_bone_name)
      THEN DictGet(bone_name_mapping, vrm_bone_name)
      ELSE vrm_bone_name

\* C9: for each pair (t, s) the bone addressed is ORG-t for an eye, its deform flag
\* true afterwards, and DEF-t otherwise; afterwards that bone is named
\* restoration_map[s] when s is a key of the restoration map and s otherwise.
C9_AddressedBoneRenamed ==
    (pc = "renamed" /\ error = "none") =>
        \A k \in DOMAIN bone_mapping :
            LET t == bone_mapping[k][1]
                addressed == IF t \in {"eye.L", "eye.R"} THEN "ORG-" \o t ELSE "DEF-" \o t
            IN  \E i \in DOMAIN RigBeforeRename :
                   /\ RigBeforeRename[i].name = addressed
                   /\ BoneById(rig_edit_bones, RigBeforeRename[i].id).name = ExpectedName(bone_mapping[k][2])
                   /\ (t \in {"eye.L", "eye.R"}) =>
                          BoneById(rig_edit_bones, RigBeforeRename[i].id).use_deform

RenameStep == "rename_rig_bones_to_match_vrm_model_vertex_groups"

\* the bone of the generated rig that pair k addresses, as a position in the rig, or 0
AddressedAt(k) == IndexOfName(RigBeforeRename, RigBoneNameFor(bone_mapping[k][1]))

IsEyePair(k) == bone_mapping[k][1] \in {"eye.L", "eye.R"}

\* pair k is a non-eye pair whose DEF- bone was generated with the deform flag off
FlagOffAt(k) ==
    /\ ~IsEyePair(k)
    /\ AddressedAt(k) # 0
    /\ ~RigBeforeRename[AddressedAt(k)].use_deform

\* the pairs before k pass: their bones exist and, for a non-eye pair, deform
PassBefore(k) ==
    \A j \in 1..(k - 1) :
        /\ AddressedAt(j) # 0
        /\ IsEyePair(j) \/ RigBeforeRename[AddressedAt(j)].use_deform

\* the name now carried by the bone that pair k addressed
NameNowOf(k) == BoneById(rig_edit_bones, RigBeforeRename[AddressedAt(k)].id).name

\* C11: a pair whose target bone (DEF-t, or ORG-t for an eye) is not in the generated
\* rig is skipped: the rename step raises no error and still processes every other
\* pair.  Stated for runs in which no deform flag stops the step.
C11_MissingTargetSkipped ==
    (/\ pc = "renamed"
     /\ \E k \in DOMAIN bone_mapping : AddressedAt(k) = 0
     /\ \A k \in DOMAIN bone_mapping : ~FlagOffAt(k)) =>
        /\ error = "none"
        /\ \A k \in DOMAIN bone_mapping :
               AddressedAt(k) # 0 => NameNowOf(k) # RigBeforeRename[AddressedAt(k)].name

\* C21: through the deformation rename no two rig bones share a name and every bone a
\* pair renamed carries exactly its target name (the capitalized root marker when the
\* target is the root marker): no rename lands on a name another rig bone holds.
C21_RenamedBonesCarryTargetName ==
    (pc = "renamed" /\ error = "none") =>
        /\ IsInjective([i \in DOMAIN rig_edit_bones |-> rig_edit_bones[i].name])
        /\ \A k \in DOMAIN bone_mapping :
              AddressedAt(k) # 0 =>
                  \/ NameNowOf(k) = ExpectedName(bone_mapping[k][2])
                  \/ /\ ExpectedName(bone_mapping[k][2]) = "root"
                     /\ NameNowOf(k) = "Root"

\* the rig when the last pair has been renamed (line 530), before the root marker is
\* looked for (line 533)
RigAfterPairs == RenameLoop(RigBeforeRename, bone_mapping, bone_name_mapping, 1).bones

\* C27: after the pairs are renamed, a bone named exactly "root" is renamed and no
\* other bone is: if there was one the rig then has a bone named "Root" and none
\* named "root"; if there was none the sub-step renames nothing; a bone whose name
\* merely contains "root" keeps its name.
C27_RootMarkerCapitalized ==
    (pc = "renamed" /\ error = "none") =>
        /\ HasBone(RigAfterPairs, "root") =>
               HasBone(rig_edit_bones, "Root") /\ ~HasBone(rig_edit_bones, "root")
        /\ ~HasBone(RigAfterPairs, "root") => rig_edit_bones = RigAfterPairs
        /\ \A i \in DOMAIN rig_edit_bones :
               RigAfterPairs[i].name # "root" => rig_edit_bones[i] = RigAfterPairs[i]

\* a renamed rig whose root marker was capitalized beside a bone called root.001
C27_Witness ==
    /\ pc = "renamed"
    /\ error = "none"
    /\ HasBone(RigAfterPairs, "root")
    /\ HasBone(RigAfterPairs, "root.001")
    /\ HasBone(rig_edit_bones, "Root")
    /\ HasBone(rig_edit_bones, "root.001")

(***************************************************************************)
(* Unmapped-bone grafting: attach_unmapped_vrm_model_bones_to_rig.         *)
(*                                                                         *)
(* The bone collections of a rig bone exist on host major version 4 and    *)
(* later, its layers value on version 3 and earlier.  armature.bones lists *)
(* a parent before its children; a source bone's parent is a position in   *)
(* the list, 0 for none.                                                   *)
(***************************************************************************)
\* an edit bone with its placement and its memberships
PlacedBone(id, name, parent, head, tail, collections, layers) ==
    [RigBone(id, name, parent, TRUE) EXCEPT !.head = head, !.tail = tail,
                                            !.collections = collections, !.layers = layers]

\* lines 564 and 573: bone_name_mapping.get(name, name) if bone_name_mapping else name
OriginalNameOf(name, name_mapping) ==
    IF name_mapping # <<>> /\ DictHas(name_mapping, name)
      THEN DictGet(name_mapping, name)
      ELSE name

\* an id no bone of the rig has
FreshId(bones) ==
    1 + (CHOOSE m \in BoneIds(bones) \cup {0} : \A id \in BoneIds(bones) : id <= m)

\* lines 585-586 with head and tail exchanged
GraftBoneSwapped(rig, vrm_bone, original_name, parent_bone_in_rig, version) ==
    PlacedBone(FreshId(rig), UniqueName(rig, 0, original_name), parent_bone_in_rig.id,
               vrm_bone.tail_local, vrm_bone.head_local,
               IF version <= 3 THEN {} ELSE parent_bone_in_rig.collections,
               IF version <= 3 THEN parent_bone_in_rig.layers ELSE 0)

\* lines 584-598: the new bone; edit_bones.new gives it no collection
GraftBone(rig, vrm_bone, original_name, parent_bone_in_rig, version) ==
    PlacedBone(FreshId(rig), UniqueName(rig, 0, original_name), parent_bone_in_rig.id,
               vrm_bone.head_local, vrm_bone.tail_local,
               IF version <= 3 THEN {} ELSE parent_bone_in_rig.collections,
               IF version <= 3 THEN parent_bone_in_rig.layers ELSE 0)

\* line 559 iterating from the last bone to the first
VisitedReversed(bones, i) == bones[Len(bones) + 1 - i]

\* line 559: the i-th bone the loop visits
Visited(bones, i) == bones[i]

RECURSIVE AttachLoop(_, _, _, _, _)
\* lines 559-598
AttachLoop(rig, bones, name_mapping, version, i) ==
    IF i > Len(bones) THEN rig
    ELSE LET vrm_bone == Visited(bones, i)
             original_name == OriginalNameOf(vrm_bone.name, name_mapping)
             bone_already_in_rig == HasBone(rig, original_name)
             vrm_bone_has_parent == vrm_bone.parent # 0
         IN  IF bone_already_in_rig \/ ~vrm_bone_has_parent
               THEN AttachLoop(rig, bones, name_mapping, version, i + 1)
             ELSE LET parent_original_name ==
                          OriginalNameOf(bones[vrm_bone.parent].name, name_mapping)
                  IN  IF ~HasBone(rig, parent_original_name)
                        THEN AttachLoop(rig, bones, name_mapping, version, i + 1)
                      ELSE AttachLoop(
                               Append(rig, GraftBone(rig, vrm_bone, original_name,
                                          rig[IndexOfName(rig, parent_original_name)],
                                          version)),
                               bones, name_mapping, version, i + 1)

\* lines 539-598
attach_unmapped_vrm_model_bones_to_rig(rig, bones, name_mapping, version) ==
    AttachLoop(rig, bones, name_mapping, version, 1)

GraftSourceNames == <<"Hips", "Spine", "Tail", "TailEnd", "Ribbon">>

\* source skeletons: the first n names, every bone a root or the child of an earlier bone
GraftSources ==
    UNION {{[i \in 1..n |-> VrmBone(GraftSourceNames[i], 2 * i - 1, 2 * i, par[i])] :
              par \in {f \in [1..n -> 0..n] : \A i \in 1..n : f[i] < i}} :
           n \in 1..MaxSourceBones}

\* restoration maps: none, or original names for Hips and Tail
GraftNameMappings == {<<>>, <<<<"Hips", "J_Hips">>, <<"Tail", "J_Tail">>>>}

\* rigs for a source skeleton: a root bone, and the bones of `mapped`, a set of source
\* positions, under their restored names, one below the other
GraftRig(bones, name_mapping, mapped, version) ==
    LET at == SelectSeq([i \in DOMAIN bones |-> i], LAMBDA i : i \in mapped)
    IN  <<PlacedBone(1, "root", 0, 0, 0, IF version <= 3 THEN {} ELSE {"Root"},
                     IF version <= 3 THEN 1 ELSE 0)>>
        \o [k \in DOMAIN at |->
              PlacedBone(k + 1, OriginalNameOf(bones[at[k]].name, name_mapping), k,
                         bones[at[k]].head_local, bones[at[k]].tail_local,
                         IF version <= 3 THEN {} ELSE {"DEF", "Layer" \o ToString(k)},
                         IF version <= 3 THEN k + 1 ELSE 0)]

InitGraft ==
    /\ pc = "attach_unmapped_vrm_model_bones_to_rig"
    /\ vrm_object_name = "Armature"
    /\ vrm_bones \in GraftSources
    /\ other_bones = <<>>
    /\ vrm_matrix_world = 0
    /\ original_bone_names = <<>>
    /\ bone_name_mapping \in GraftNameMappings
    /\ blender_version \in {3, 4}
    /\ \E mapped \in SUBSET DOMAIN vrm_bones :
          rig_edit_bones = GraftRig(vrm_bones, bone_name_mapping, mapped, blender_version)
    /\ bone_mapping = <<>>
    /\ vertex_groups = <<>>
    /\ writes = <<>>
    /\ rig_matrix_world = 1
    /\ mode = "OBJECT"
    /\ error = "none"
    /\ steps = <<>>
    /\ IdleRoles /\ IdleMetarig /\ IdleOperator /\ IdleHistory

\* __init__.py line 111
Attach ==
    /\ pc = "attach_unmapped_vrm_model_bones_to_rig"
    /\ rig_edit_bones' = attach_unmapped_vrm_model_bones_to_rig(
                             rig_edit_bones, vrm_bones, bone_name_mapping, blender_version)
    /\ snap' = Append(snap, <<pc, rig_edit_bones>>)
    /\ steps' = Append(steps, pc)
    /\ pc' = "attached"
    /\ UNCHANGED <<hostVars, roleVars, bone_mapping, sourceVars, restoreVars, metarigVars,
                   mode, error, operatorVars, removed>>

NextGraft == Attach

SpecGraft == InitGraft /\ [][NextGraft]_vars

RigBeforeGraft == Before("attach_unmapped_vrm_model_bones_to_rig")

\* the bones the call created
Grafted == {i \in DOMAIN rig_edit_bones : rig_edit_bones[i].id \notin BoneIds(RigBeforeGraft)}

\* the source bone a created bone was made for
SourceOf(i) ==
    CHOOSE j \in DOMAIN vrm_bones :
        OriginalNameOf(vrm_bones[j].name, bone_name_mapping) = rig_edit_bones[i].name

\* C12: every bone the grafting creates has the head and tail of its source bone, the
\* source bone's effective target name, the rig bone named by the effective target
\* name of the source bone's parent as its parent, and exactly that parent's bone
\* collections (its layers value on host major version 3 or lower).
C12_GraftedBoneCopiesSource ==
    pc = "attached" =>
        \A i \in Grafted :
            /\ \E j \in DOMAIN vrm_bones :
                   OriginalNameOf(vrm_bones[j].name, bone_name_mapping) = rig_edit_bones[i].name
            /\ LET src == vrm_bones[SourceOf(i)]
                   parent == BoneById(rig_edit_bones, rig_edit_bones[i].parent)
               IN  /\ rig_edit_bones[i].head = src.head_local
                   /\ rig_edit_bones[i].tail = src.tail_local
                   /\ src.parent # 0
                   /\ rig_edit_bones[i].parent \in BoneIds(rig_edit_bones)
                   /\ parent.name = OriginalNameOf(vrm_bones[src.parent].name, bone_name_mapping)
                   /\ IF blender_version <= 3
                        THEN rig_edit_bones[i].layers = parent.layers
                        ELSE rig_edit_bones[i].collections = parent.collections

\* a bone grafted under a renamed bone, with that bone's memberships
C12_Witness ==
    /\ pc = "attached"
    /\ bone_name_mapping # <<>>
    /\ \E i \in Grafted :
          /\ rig_edit_bones[i].name = "J_Tail"
          /\ BoneById(rig_edit_bones, rig_edit_bones[i].parent).name = "Spine"
          /\ rig_edit_bones[i].collections = {"DEF", "Layer2"}

\* the effective target name of the source bone at position j
EffectiveName(j) == OriginalNameOf(vrm_bones[j].name, bone_name_mapping)

\* the source bone at position j is in no rig bone's name when the call begins and its
\* parent is such a bone too
DeepUnmapped(j) ==
    /\ vrm_bones[j].parent # 0
    /\ ~HasBone(RigBeforeGraft, EffectiveName(j))
    /\ ~HasBone(RigBeforeGraft, EffectiveName(vrm_bones[j].parent))

RECURSIVE ReachesRig(_)
\* the source bone at position j has a parent, is absent from the rig when the call
\* begins, and its parent is in the rig then or is such a bone itself
ReachesRig(j) ==
    /\ vrm_bones[j].parent # 0
    /\ ~HasBone(RigBeforeGraft, EffectiveName(j))
    /\ \/ HasBone(RigBeforeGraft, EffectiveName(vrm_bones[j].parent))
       \/ ReachesRig(vrm_bones[j].parent)

MaxGroups == 3

\* line 770: the 1000000 of hash(vg.name) % 1000000, scaled down
HashModulus == 2

VertexGroup(id, name) == [id |-> id, name |-> name]

GroupNames == {"Hips", "Spine", "Head", "J_Hips"}

\* line 770: f"_TMP_{hash(vg.name) % 1000000:06d}"
TempName(hash, name) == "_TMP_00000" \o ToString(hash[name] % HashModulus)

\* vg.name = name
SetGroupName(st, i, name) ==
    LET given == UniqueName(st.groups, st.groups[i].id, name)
    IN  [st EXCEPT !.groups[i].name = given,
                   !.writes = Append(@, [id |-> st.groups[i].id, requested |-> name,
                                         given |-> given])]

RECURSIVE TempLoop(_, _, _, _)
\* lines 767-772; st.temp_mapping maps a temporary name to (standardized name, target)
TempLoop(st, name_mapping, hash, i) ==
    IF i > Len(st.groups) THEN st
    ELSE LET name == st.groups[i].name
         IN  IF DictHas(name_mapping, name)
               THEN LET temp_name == TempName(hash, name)
                        noted == [st EXCEPT !.temp_mapping =
                                     DictSet(@, temp_name, <<name, DictGet(name_mapping, name)>>)]
                    IN  TempLoop(SetGroupName(noted, i, temp_name), name_mapping, hash, i + 1)
               ELSE TempLoop(st, name_mapping, hash, i + 1)

RECURSIVE TargetLoop(_, _)
\* lines 775-778
TargetLoop(st, i) ==
    IF i > Len(st.groups) THEN st
    ELSE IF DictHas(st.temp_mapping, st.groups[i].name)
      THEN TargetLoop(SetGroupName(st, i, DictGet(st.temp_mapping, st.groups[i].name)[2]),
                      i + 1)
      ELSE TargetLoop(st, i + 1)

\* lines 752-778; without a restoration map (line 760), as with an empty one, no group
\* is renamed
update_vertex_groups_to_original_names(groups, name_mapping, hash, log) ==
    LET st == [groups |-> groups, temp_mapping |-> <<>>, writes |-> log]
    IN  IF name_mapping = <<>> THEN st
        ELSE TargetLoop(TempLoop(st, name_mapping, hash, 1), 1)

\* the groups of a mesh: distinct names, group i has id i
GroupLists ==
    {[i \in DOMAIN ns |-> VertexGroup(i, ns[i])] :
        ns \in {t \in SeqsUpTo(GroupNames, MaxGroups) : IsInjective(t)}}

\* restoration maps for the bones Hips and Spine: each has an entry or none, no two
\* entries with the same original name
GroupNameMappings ==
    UNION {SubSeqsOf(<<<<"Hips", o[1]>>, <<"Spine", o[2]>>>>) :
             o \in {t \in [1..2 -> GroupNames] : t[1] # t[2]}}

\* the strings the call hashes, and the hash functions of a process
HashedNames == {"Hips", "Spine"}

Hashes == [HashedNames -> 0..(HashModulus - 1)]

InitGroups ==
    /\ pc = "update_vertex_groups_to_original_names"
    /\ vertex_groups \in GroupLists
    /\ bone_name_mapping \in GroupNameMappings
    /\ blender_version = 4
    /\ rig_matrix_world = 1
    /\ writes = <<>>
    /\ vrm_object_name = "Armature"
    /\ vrm_bones = <<>>
    /\ other_bones = <<>>
    /\ vrm_matrix_world = 0
    /\ original_bone_names = <<>>
    /\ bone_mapping = <<>>
    /\ mode = "OBJECT"
    /\ error = "none"
    /\ steps = <<>>
    /\ IdleRoles /\ IdleMetarig /\ IdleRig /\ IdleOperator /\ IdleHistory

\* line 799
RenameGroups ==
    /\ pc = "update_vertex_groups_to_original_names"
    /\ \E hash \in Hashes :
         LET out == update_vertex_groups_to_original_names(
                        vertex_groups, bone_name_mapping, hash, writes)
         IN  /\ vertex_groups' = out.groups
             /\ writes' = out.writes
    /\ snap' = Append(snap, <<pc, vertex_groups>>)
    /\ steps' = Append(steps, pc)
    /\ pc' = "vertex_groups_renamed"
    /\ UNCHANGED <<blender_version, rig_matrix_world, roleVars, bone_mapping, sourceVars,
                   restoreVars, metarigVars, rig_edit_bones, mode, error, operatorVars,
                   removed>>

NextGroups == RenameGroups

SpecGroups == InitGroups /\ [][NextGroups]_vars

GroupsBefore == Before("update_vertex_groups_to_original_names")

\* the temporary names the first phase asked for, by group id
TempWrites == SelectSeq(writes, LAMBDA w : StartsWith(w.requested, "_TMP_"))

\* C14: the two-phase renaming is collision-safe: no assignment of either phase puts a
\* name on a group while another group of the mesh carries it (so no two groups ever
\* share a name), the temporary names of distinct groups are distinct, and the groups
\* end with pairwise distinct names.
C14_NoTransientDuplicate ==
    pc = "vertex_groups_renamed" =>
        /\ \A k \in DOMAIN writes : writes[k].given = writes[k].requested
        /\ \A k, l \in DOMAIN TempWrites :
               k # l => TempWrites[k].requested # TempWrites[l].requested
        /\ IsInjective(BoneNames(vertex_groups))

\* C28: every vertex group whose name before the call is a key of the restoration map
\* ends with the name the map gives for it, also when the map exchanges names among
\* the groups; every other group keeps its name; without a map nothing changes.
C28_GroupsGetMappedNames ==
    pc = "vertex_groups_renamed" =>
        /\ Len(vertex_groups) = Len(GroupsBefore)
        /\ \A i \in DOMAIN vertex_groups :
               vertex_groups[i].name =
                   IF DictHas(bone_name_mapping, GroupsBefore[i].name)
                     THEN DictGet(bone_name_mapping, GroupsBefore[i].name)
                     ELSE GroupsBefore[i].name

(***************************************************************************)
(* Eye control derivation: modify_rigify_rig_eyes_control_bones.           *)
(*                                                                         *)
(* A coordinate is a rational number, a pair <<numerator, denominator>> in *)
(* lowest terms with a positive denominator; the arithmetic is exact, the  *)
(* rounding of the host's floating-point numbers is left out.  A point is  *)
(* a record of x, y and z.  A bone's length is a value the host derives;   *)
(* the rescaling of line 687 is kept as the factor applied to it.          *)
(***************************************************************************)
MaxEyeCoord == 1

Abs(n) == IF n < 0 THEN 0 - n ELSE n

RECURSIVE GCD(_, _)
GCD(a, b) == IF b = 0 THEN a ELSE GCD(b, a % b)

\* the rational n / d, d # 0
Rat(n, d) ==
    LET g == GCD(Abs(n), Abs(d))
    IN  IF d < 0 THEN <<(0 - n) \div g, (0 - d) \div g>> ELSE <<n \div g, d \div g>>

Whole(n) == <<n, 1>>

RAdd(a, b) == Rat(a[1] * b[2] + b[1] * a[2], a[2] * b[2])

RSub(a, b) == Rat(a[1] * b[2] - b[1] * a[2], a[2] * b[2])

RMul(a, b) == Rat(a[1] * b[1], a[2] * b[2])

\* a / b, b not zero
RDiv(a, b) == Rat(a[1] * b[2], a[2] * b[1])

IsZero(a) == a[1] = 0

Point(x, y, z) == [x |-> Whole(x), y |-> Whole(y), z |-> Whole(z)]

\* obj.matrix_world @ v for a matrix that scales uniformly
World(matrix_world, v) ==
    [x |-> RMul(Whole(matrix_world), v.x), y |-> RMul(Whole(matrix_world), v.y),
     z |-> RMul(Whole(matrix_world), v.z)]

\* a bone of the rig with its placement
EyeBone(id, name, head, tail, length) ==
    [RigBone(id, name, 0, FALSE) EXCEPT !.head = head, !.tail = tail, !.length = length]

\* lines 651-652 and 657-658: rise / run if run != 0 else 0
Slope(rise, run) == IF ~IsZero(run) THEN RDiv(rise, run) ELSE Whole(0)

\* lines 654 and 660 with 0 as the fallback
PositionOnLineOrZero(a, b, e_head_y3, m_head) ==
    IF ~IsZero(a) THEN RDiv(RSub(e_head_y3, b), a) ELSE Whole(0)

\* lines 654 and 660: (e_head_y3 - b) / a if a != 0 else the reference head's coordinate
PositionOnLine(a, b, e_head_y3, m_head) ==
    IF ~IsZero(a) THEN RDiv(RSub(e_head_y3, b), a) ELSE m_head
\* lines 666-679: the head and tail of an eye bone; side is 1 for eye.L, -1 for eye.R
PlaceEye(bone, side, x_position, z_position, e_head_length) ==
    [bone EXCEPT !.head.x = RMul(Whole(side), x_position),
                 !.head.z = z_position,
                 !.tail.x = RMul(Whole(side), x_position),
                 !.tail.z = RAdd(z_position, e_head_length)]

\* lines 682-688
PlaceEyes(bone, z_position, e_head_length, scale_ratio) ==
    [bone EXCEPT !.head.z = z_position,
                 !.tail.z = RAdd(z_position, e_head_length),
                 !.length_scale = RMul(RMul(@, scale_ratio), Rat(135, 100))]

\* lines 627-688.  A name of lines 641-647 that was never bound (the bone is not in the
\* rig) fails where it is first read; locals lists x_position and z_position once
\* computed.
modify_rigify_rig_eyes_control_bones(bones, matrix_world) ==
    LET mi == IndexOfName(bones, "master_eye.L")
        ei == IndexOfName(bones, "eye.L")
    IN  IF mi = 0 THEN [bones |-> bones, error |-> "UnboundLocalError", locals |-> <<>>]
        ELSE
        LET m_head == World(matrix_world, bones[mi].head)
            m_tail == World(matrix_world, bones[mi].tail)
            x_a == Slope(RSub(m_tail.y, m_head.y), RSub(m_tail.x, m_head.x))
            x_b == RSub(m_head.y, RMul(x_a, m_head.x))
            z_a == Slope(RSub(m_tail.y, m_head.y), RSub(m_tail.z, m_head.z))
            z_b == RSub(m_head.y, RMul(z_a, m_head.z))
        IN  IF ei = 0
              THEN [bones |-> bones, error |-> "UnboundLocalError",
                    locals |-> IF ~IsZero(x_a) THEN <<>>
                               ELSE IF ~IsZero(z_a) THEN <<<<"x_position", m_head.x>>>>
                               ELSE <<<<"x_position", m_head.x>>, <<"z_position", m_head.z>>>>]
            ELSE
            LET e_head == World(matrix_world, bones[ei].head)
                e_head_length == bones[ei].length
                x_position == PositionOnLine(x_a, x_b, e_head.y, m_head.x)
                z_position == PositionOnLine(z_a, z_b, e_head.y, m_head.z)
                locals == <<<<"x_position", x_position>>, <<"z_position", z_position>>>>
            IN  IF IsZero(e_head.x)
                  THEN [bones |-> bones, error |-> "ZeroDivisionError", locals |-> locals]
                ELSE
                LET scale_ratio == RDiv(RSub(x_position, e_head.x), e_head.x)
                IN  [bones |->
                       [i \in DOMAIN bones |->
                          IF bones[i].name = "eye.L"
                            THEN PlaceEye(bones[i], 1, x_position, z_position, e_head_length)
                          ELSE IF bones[i].name = "eye.R"
                            THEN PlaceEye(bones[i], -1, x_position, z_position, e_head_length)
                          ELSE IF bones[i].name = "eyes" /\ ~IsZero(x_a)
                            THEN PlaceEyes(bones[i], z_position, e_head_length, scale_ratio)
                          ELSE bones[i]],
                     error |-> "none", locals |-> locals]

EyeCoords == (0 - 1)..MaxEyeCoord

\* rigs with the four bones of the eye derivation, the reference bones at any points
\* with x on either side of the origin and y and z not below it
EyeRigs ==
    {<<EyeBone(1, "master_eye.L", Point(m[1], m[2], m[3]), Point(m[4], m[5], m[6]), Whole(1)),
       EyeBone(2, "eye.L", Point(m[7], m[8], 0), Point(m[7], m[8] - 1, 0), Whole(1)),
       EyeBone(3, "eye.R", Point(0 - m[7], m[8], 0), Point(0 - m[7], m[8] - 1, 0), Whole(1)),
       EyeBone(4, "eyes", Point(0, 0 - 2, 0), Point(0, 0 - 2, 1), Whole(1))>> :
        m \in {f \in [1..8 -> EyeCoords] : \A i \in {2, 3, 5, 6, 8} : f[i] >= 0}}

\* rigs that lack some of the four bones
PartialEyeRigs ==
    SubSeqsOf(<<EyeBone(1, "master_eye.L", Point(1, 0, 1), Point(1, 0 - 1, 1), Whole(1)),
                EyeBone(2, "eye.L", Point(1, 0, 1), Point(1, 0 - 1, 1), Whole(1)),
                EyeBone(3, "eye.R", Point(0 - 1, 0, 1), Point(0 - 1, 0 - 1, 1), Whole(1)),
                EyeBone(4, "eyes", Point(0, 0 - 2, 1), Point(0, 0 - 2, 2), Whole(1))>>)

InitEyes ==
    /\ pc = "modify_rigify_rig_eyes_control_bones"
    /\ rig_edit_bones \in EyeRigs \cup PartialEyeRigs
    /\ rig_matrix_world \in {1, 2}
    /\ blender_version = 4
    /\ vertex_groups = <<>>
    /\ writes = <<>>
    /\ bone_mapping = <<>>
    /\ mode = "OBJECT"
    /\ error = "none"
    /\ steps = <<>>
    /\ IdleRoles /\ IdleSource /\ IdleMetarig /\ IdleOperator /\ IdleHistory

\* __init__.py line 115
ModifyEyes ==
    /\ pc = "modify_rigify_rig_eyes_control_bones"
    /\ LET out == modify_rigify_rig_eyes_control_bones(rig_edit_bones, rig_matrix_world)
       IN  /\ rig_edit_bones' = out.bones
           /\ error' = out.error
           /\ snap' = Append(snap, <<pc, rig_edit_bones>>) \o out.locals
    /\ steps' = Append(steps, pc)
    /\ pc' = "eyes_modified"
    /\ UNCHANGED <<hostVars, roleVars, bone_mapping, sourceVars, restoreVars, metarigVars,
                   mode, operatorVars, removed>>

NextEyes == ModifyEyes

SpecEyes == InitEyes /\ [][NextEyes]_vars

RigBeforeEyes == Before("modify_rigify_rig_eyes_control_bones")

\* a value the derivation computed
Computed(name) == Before(name)

\* the reference points as the derivation reads them (lines 641-642)
MasterHead == World(rig_matrix_world, RigBeforeEyes[IndexOfName(RigBeforeEyes, "master_eye.L")].head)

MasterTail == World(rig_matrix_world, RigBeforeEyes[IndexOfName(RigBeforeEyes, "master_eye.L")].tail)

HasReferences == HasBone(RigBeforeEyes, "master_eye.L") /\ HasBone(RigBeforeEyes, "eye.L")

\* C15: when the master eye reference bone's tail and head have equal x, the computed
\* x_position is the reference head's x coordinate exactly; when they have equal z,
\* the computed z_position is the reference head's z coordinate.
C15_FallbackIsReferenceHead ==
    (pc = "eyes_modified" /\ HasReferences) =>
        /\ MasterTail.x = MasterHead.x =>
               HasRun("modify_rigify_rig_eyes_control_bones") /\ Computed("x_position") = MasterHead.x
        /\ MasterTail.z = MasterHead.z =>
               HasRun("modify_rigify_rig_eyes_control_bones") /\ Computed("z_position") = MasterHead.z

\* a derivation that returned with both fallbacks taken from a reference head off the
\* origin and wrote them to eye.L
C15_Witness ==
    /\ pc = "eyes_modified"
    /\ HasReferences
    /\ error = "none"
    /\ MasterTail.x = MasterHead.x
    /\ MasterTail.z = MasterHead.z
    /\ MasterTail.y # MasterHead.y
    /\ MasterHead.x = Whole(2)
    /\ rig_edit_bones[IndexOfName(rig_edit_bones, "eye.L")].head.x = Whole(2)
    /\ rig_edit_bones[IndexOfName(rig_edit_bones, "eye.L")].head.z = MasterHead.z

\* C16: for every combination of reference coordinates of master_eye.L and eye.L the
\* derivation completes without a division-by-zero error.
C16_NoDivisionByZero ==
    (pc = "eyes_modified" /\ HasReferences) => error # "ZeroDivisionError"

\* C24: when the rig lacks master_eye.L or eye.L the eye derivation is skipped: it
\* raises no error and every bone keeps its head, its tail and its length.
C24_MissingReferenceSkipped ==
    (/\ pc = "eyes_modified"
     /\ \/ ~HasBone(RigBeforeEyes, "master_eye.L")
        \/ ~HasBone(RigBeforeEyes, "eye.L")) =>
        /\ error = "none"
        /\ \A i \in DOMAIN rig_edit_bones :
               /\ rig_edit_bones[i].head = RigBeforeEyes[i].head
               /\ rig_edit_bones[i].tail = RigBeforeEyes[i].tail
               /\ rig_edit_bones[i].length = RigBeforeEyes[i].length
               /\ rig_edit_bones[i].length_scale = RigBeforeEyes[i].length_scale

(***************************************************************************)
(* Mode scopes.  bpy.context.object.mode is "OBJECT", "EDIT" or "POSE".    *)
(***************************************************************************)
Modes == {"OBJECT", "EDIT", "POSE"}

\* lines 38-40: __exit__ runs with or without an exception and sets the mode that
\* __enter__ saved (line 35); body_mode is the mode the body of the scope ends in
ModeContextExit(old_mode, body_mode, exception) == old_mode

(***************************************************************************)
(* Fixed hierarchy rewrites and eye-adjustment wiring:                     *)
(* adjust_bone_hierarchy_and_constraints_for_Unity.                        *)
(*                                                                         *)
(* Assigning a parent is ignored by the host when the new parent is the    *)
(* bone itself or one of its descendants.                                  *)
(***************************************************************************)
PoseRigBone(id, name, parent, collections) ==
    [RigBone(id, name, parent, TRUE) EXCEPT !.collections = collections]

\* lines 834-852, in the order of the dict
parent_adjustments ==
    <<<<"J_Bip_R_Shoulder", "J_Bip_C_UpperChest">>, <<"J_Bip_L_Shoulder", "J_Bip_C_UpperChest">>,
      <<"J_Bip_L_UpperArm", "J_Bip_L_Shoulder">>, <<"J_Bip_R_UpperArm", "J_Bip_R_Shoulder">>,
      <<"J_Bip_R_UpperLeg", "J_Bip_C_Hips">>, <<"J_Bip_L_UpperLeg", "J_Bip_C_Hips">>>>
    \o [i \in 1..10 |->
          LET side == IF i <= 5 THEN "R" ELSE "L"
              finger == <<"Thumb1", "Index1", "Middle1", "Ring1", "Little1">>[((i - 1) % 5) + 1]
          IN  <<"J_Bip_" \o side \o "_" \o finger, "J_Bip_" \o side \o "_Hand">>]

\* lines 860-863
eye_bone_adjustments ==
    <<<<"J_Adj_L_FaceEye", [parent |-> "J_Bip_C_Head", target |-> "MCH-eye.L"]>>,
      <<"J_Adj_R_FaceEye", [parent |-> "J_Bip_C_Head", target |-> "MCH-eye.R"]>>>>

\* a parent assignment that takes any bone as the new parent
SetParentUnchecked(bones, i, p) == [bones EXCEPT ![i].parent = bones[p].id]

\* edit_bones[i].parent = edit_bones[p]
SetParent(bones, i, p) ==
    IF p = i \/ ParentIndex(bones, bones[p].id, bones[i].id, Len(bones)) # 0
      THEN bones
      ELSE [bones EXCEPT ![i].parent = bones[p].id]

\* line 856 testing the bone only
ShouldReparentBoneOnly(bones, bone_name, parent_name) == HasBone(bones, bone_name)

\* line 856
ShouldReparent(bones, bone_name, parent_name) ==
    HasBone(bones, bone_name) /\ HasBone(bones, parent_name)

RECURSIVE ReparentLoop(_, _, _)
\* lines 855-857
ReparentLoop(bones, table, k) ==
    IF k > Len(table) THEN [bones |-> bones, error |-> "none"]
    ELSE IF ~ShouldReparent(bones, table[k][1], table[k][2])
      THEN ReparentLoop(bones, table, k + 1)
    ELSE IF ~HasBone(bones, table[k][1]) \/ ~HasBone(bones, table[k][2])
      THEN [bones |-> bones, error |-> "KeyError"]
    ELSE ReparentLoop(SetParent(bones, IndexOfName(bones, table[k][1]),
                                IndexOfName(bones, table[k][2])), table, k + 1)

RECURSIVE EyeParentLoop(_, _)
\* lines 865-871
EyeParentLoop(bones, k) ==
    IF k > Len(eye_bone_adjustments) THEN bones
    ELSE LET bone_name == eye_bone_adjustments[k][1]
             adjustment == eye_bone_adjustments[k][2]
         IN  IF ~HasBone(bones, bone_name) \/ ~HasBone(bones, adjustment.parent)
               THEN EyeParentLoop(bones, k + 1)
               ELSE EyeParentLoop(SetParent(bones, IndexOfName(bones, bone_name),
                                            IndexOfName(bones, adjustment.parent)), k + 1)

\* rig_object.data.collections: the collections the bones of the rig are in
CollectionsOf(bones) == UNION {bones[i].collections : i \in DOMAIN bones}

RECURSIVE EyeWiringLoop(_, _, _)
\* lines 876-892; armatures have no `collections` before host version 4
EyeWiringLoop(bones, version, k) ==
    IF k > Len(eye_bone_adjustments) THEN [bones |-> bones, error |-> "none"]
    ELSE LET bone_name == eye_bone_adjustments[k][1]
             target_bone == eye_bone_adjustments[k][2].target
             i == IndexOfName(bones, bone_name)
         IN  IF i = 0 THEN EyeWiringLoop(bones, version, k + 1)
             ELSE IF version <= 3 THEN [bones |-> bones, error |-> "AttributeError"]
             ELSE LET assigned ==
                          IF "DEF" \in CollectionsOf(bones)
                            THEN [bones EXCEPT ![i].collections = @ \cup {"DEF"}]
                            ELSE bones
                      wired ==
                          IF HasBone(bones, target_bone)
                            THEN [assigned EXCEPT ![i].constraints =
                                     Append(@, [type |-> "COPY_TRANSFORMS",
                                                subtarget |-> target_bone])]
                            ELSE assigned
                  IN  EyeWiringLoop(wired, version, k + 1)

\* lines 821-894; the result has the rig, the mode the host is left in and the
\* exception raised, if any
adjust_bone_hierarchy_and_constraints_for_Unity(bones, entry_mode, version) ==
    LET edited == ReparentLoop(bones, parent_adjustments, 1)
        after_scope == ModeContextExit(entry_mode, "EDIT", edited.error)
    IN  IF edited.error # "none"
          THEN [bones |-> edited.bones, mode |-> after_scope, error |-> edited.error]
          ELSE LET wired == EyeWiringLoop(EyeParentLoop(edited.bones, 1), version, 1)
               IN  IF wired.error # "none"
                     THEN [bones |-> wired.bones, mode |-> "POSE", error |-> wired.error]
                     ELSE [bones |-> wired.bones, mode |-> "OBJECT", error |-> "none"]
MaxHierarchyBones == 3

HierarchyNames ==
    <<"J_Bip_C_Hips", "Tail", "J_Bip_C_UpperChest", "J_Bip_C_Head", "J_Bip_L_Shoulder",
      "J_Bip_L_Hand", "J_Bip_L_Index1", "J_Adj_L_FaceEye", "MCH-eye.L">>

\* rigs over some of the names, in the order of the list: a bone is a root or the child
\* of a bone listed before it, as in a skeleton listed from the hips outward
HierarchyRigs ==
    UNION {{[i \in DOMAIN names |->
                PoseRigBone(i, names[i], par[i],
                            IF StartsWith(names[i], "J_Bip_") THEN {"DEF"} ELSE {})] :
              par \in {f \in [DOMAIN names -> 0..Len(names)] :
                         \A i \in DOMAIN names : f[i] < i}} :
           names \in {n \in SubSeqsOf(HierarchyNames) : Len(n) <= MaxHierarchyBones}}

InitHierarchy ==
    /\ pc = "adjust_bone_hierarchy_and_constraints_for_Unity"
    /\ rig_edit_bones \in HierarchyRigs
    /\ blender_version \in {3, 4}
    /\ mode \in {"OBJECT", "POSE"}
    /\ rig_matrix_world = 1
    /\ vertex_groups = <<>>
    /\ writes = <<>>
    /\ bone_mapping = <<>>
    /\ error = "none"
    /\ steps = <<>>
    /\ IdleRoles /\ IdleSource /\ IdleMetarig /\ IdleOperator /\ IdleHistory

\* __init__.py line 124
AdjustHierarchy ==
    /\ pc = "adjust_bone_hierarchy_and_constraints_for_Unity"
    /\ LET out == adjust_bone_hierarchy_and_constraints_for_Unity(
                      rig_edit_bones, mode, blender_version)
       IN  /\ rig_edit_bones' = out.bones
           /\ mode' = out.mode
           /\ error' = out.error
    /\ snap' = Append(snap, <<pc, [bones |-> rig_edit_bones, mode |-> mode]>>)
    /\ steps' = Append(steps, pc)
    /\ pc' = "hierarchy_adjusted"
    /\ UNCHANGED <<hostVars, roleVars, bone_mapping, sourceVars, restoreVars, metarigVars,
                   operatorVars, removed>>

NextHierarchy == AdjustHierarchy

SpecHierarchy == InitHierarchy /\ [][NextHierarchy]_vars

RigBeforeHierarchy == Before("adjust_bone_hierarchy_and_constraints_for_Unity").bones

\* the parent the fixed table names for a bone, "" when the bone is not in the table
TableParent(name) ==
    IF \E k \in DOMAIN parent_adjustments : parent_adjustments[k][1] = name
      THEN parent_adjustments[CHOOSE k \in DOMAIN parent_adjustments :
                                  parent_adjustments[k][1] = name][2]
      ELSE ""

C18_ModeRestored ==
    pc = "hierarchy_adjusted" =>
        mode = Before("adjust_bone_hierarchy_and_constraints_for_Unity").mode

(***************************************************************************)
(* Template shape tuner: Modify_metarig_limb_rotation_axes,                *)
(* modify_metarig_arm_hand_finger_rotation, modify_metarig_limb_segments.  *)
(*                                                                         *)
(* A tuned bone is a template bone with its roll in degrees, its two       *)
(* rotation-axis parameters and its segment count; has_segments says       *)
(* whether the bone's rig type has a segment count at all.                 *)
(***************************************************************************)
MaxTunedBones == 2

\* Python's `sub in name`
Contains(name, sub) ==
    \E i \in 1..(Len(name) - Len(sub) + 1) : SubSeq(name, i, i + Len(sub) - 1) = sub

\* Python's str.endswith
EndsWith(name, suffix) ==
    /\ Len(name) >= Len(suffix)
    /\ SubSeq(name, Len(name) - Len(suffix) + 1, Len(name)) = suffix

TunedBone(name, roll, segments, has_segments) ==
    MetarigBone(name, 0, 0) @@
    [roll |-> roll, rotation_axis |-> "automatic", primary_rotation_axis |-> "automatic",
     segments |-> segments, has_segments |-> has_segments]

\* lines 383-386
limb_bone_patterns ==
    <<Pattern({""}, "upper_arm.", {"L", "R"}, FALSE), Pattern({""}, "thigh.", {"L", "R"}, FALSE)>>

\* lines 389-395
finger_bone_patterns ==
    <<Pattern({""}, "f_pinky.01.", {"L", "R"}, FALSE),
      Pattern({""}, "f_ring.01.", {"L", "R"}, FALSE),
      Pattern({""}, "f_middle.01.", {"L", "R"}, FALSE),
      Pattern({""}, "f_index.01.", {"L", "R"}, FALSE),
      Pattern({""}, "thumb.01.", {"L", "R"}, FALSE)>>

Matches(patterns, name) == \E i \in DOMAIN patterns : re_match(patterns[i], name)

\* lines 375-408
Modify_metarig_limb_rotation_axes(bones) ==
    [i \in DOMAIN bones |->
        LET limb == IF Matches(limb_bone_patterns, bones[i].name)
                      THEN [bones[i] EXCEPT !.rotation_axis = "x"]
                      ELSE bones[i]
        IN  IF Matches(finger_bone_patterns, limb.name)
              THEN [limb EXCEPT !.primary_rotation_axis =
                                   IF EndsWith(limb.name, "L") THEN "Z" ELSE "-Z"]
              ELSE limb]

\* bone.roll += value: a roll turned by the angle
SetRollRelative(bone, when, degrees) ==
    IF when THEN [bone EXCEPT !.roll = @ + degrees] ELSE bone

\* if when: bone.roll = math.radians(degrees)
SetRoll(bone, when, degrees) ==
    IF when THEN [bone EXCEPT !.roll = degrees] ELSE bone

\* lines 423-436, the five tests in their order
RollBone(bone) ==
    LET n == bone.name
        r1 == SetRoll(bone, StartsWith(n, "f_") /\ Contains(n, ".L"), 0 - 90)
        r2 == SetRoll(r1, StartsWith(n, "f_") /\ Contains(n, ".R"), 90)
        r3 == SetRoll(r2, StartsWith(n, "thumb"), 0)
        r4 == SetRoll(r3, \/ Contains(n, "arm") /\ Contains(n, ".L")
                          \/ Contains(n, "hand") /\ Contains(n, ".L"), 90)
    IN  SetRoll(r4, \/ Contains(n, "arm") /\ Contains(n, ".R")
                    \/ Contains(n, "hand") /\ Contains(n, ".R"), 0 - 90)

\* lines 411-436
modify_metarig_arm_hand_finger_rotation(bones) == [i \in DOMAIN bones |-> RollBone(bones[i])]

\* lines 133-138
limb_bones == <<"upper_arm.R", "upper_arm.L", "thigh.R", "thigh.L">>

\* lines 125-148
modify_metarig_limb_segments(bones) ==
    [i \in DOMAIN bones |->
        IF bones[i].name \in Range(limb_bones) /\ bones[i].has_segments
          THEN [bones[i] EXCEPT !.segments = 1]
          ELSE bones[i]]

ShapeTuners ==
    <<"Modify_metarig_limb_rotation_axes", "modify_metarig_arm_hand_finger_rotation",
      "modify_metarig_limb_segments">>

TunedNames ==
    <<"spine", "upper_arm.L", "thigh.R", "forearm.R", "hand.L", "f_index.01.L", "f_pinky.01.R",
      "thumb.01.L", "f_hand.L">>

\* templates over some of the names, every bone with a roll and a segment count of its
\* own
TunedTemplates ==
    UNION {{[i \in DOMAIN names |->
                TunedBone(names[i], roll[i], 2, names[i] # "thigh.R")] :
              roll \in [DOMAIN names -> {0, 45}]} :
           names \in {n \in SubSeqsOf(TunedNames) : Len(n) <= MaxTunedBones}}

InitTune ==
    /\ pc = "Modify_metarig_limb_rotation_axes"
    /\ metarig_edit_bones \in TunedTemplates
    /\ metarig_matrix_world = 0
    /\ bone_mapping = <<>>
    /\ mode = "OBJECT"
    /\ error = "none"
    /\ steps = <<>>
    /\ IdleRoles /\ IdleSource /\ IdleRig /\ IdleOperator /\ IdleHistory /\ IdleHost

\* __init__.py lines 97-99, and the same three calls once more
Tune ==
    /\ pc \in Range(ShapeTuners)
    /\ Len(steps) < 2 * Len(ShapeTuners)
    /\ metarig_edit_bones' =
         IF pc = "Modify_metarig_limb_rotation_axes"
           THEN Modify_metarig_limb_rotation_axes(metarig_edit_bones)
         ELSE IF pc = "modify_metarig_arm_hand_finger_rotation"
           THEN modify_metarig_arm_hand_finger_rotation(metarig_edit_bones)
         ELSE modify_metarig_limb_segments(metarig_edit_bones)
    /\ mode' = ModeContextExit(mode, "EDIT", "none")
    /\ snap' = Append(snap, <<pc, metarig_edit_bones>>)
    /\ steps' = Append(steps, pc)
    /\ pc' = IF Len(steps') = 2 * Len(ShapeTuners) THEN "tuned_twice"
             ELSE ShapeTuners[(Len(steps') % Len(ShapeTuners)) + 1]
    /\ UNCHANGED <<hostVars, roleVars, bone_mapping, sourceVars, restoreVars,
                   metarig_matrix_world, rig_edit_bones, error, operatorVars, removed>>

NextTune == Tune

SpecTune == InitTune /\ [][NextTune]_vars

TemplateBeforeTuning == BeforeRun("Modify_metarig_limb_rotation_axes", 1)

TemplateAfterFirstTuning == BeforeRun("Modify_metarig_limb_rotation_axes", 2)

\* the roll the rules give a name, the later rule first, or `roll` when no rule names it
RollByName(n, roll) ==
    IF (Contains(n, "arm") \/ Contains(n, "hand")) /\ Contains(n, ".R") THEN 0 - 90
    ELSE IF (Contains(n, "arm") \/ Contains(n, "hand")) /\ Contains(n, ".L") THEN 90
    ELSE IF StartsWith(n, "thumb") THEN 0
    ELSE IF StartsWith(n, "f_") /\ Contains(n, ".R") THEN 90
    ELSE IF StartsWith(n, "f_") /\ Contains(n, ".L") THEN 0 - 90
    ELSE roll

\* C23: a second application of the three tuners leaves every bone's roll, rotation-axis
\* parameters and segment count as the first application left them, and the roll of a
\* bone that a roll rule names is the value of the last rule naming it, whatever roll
\* the bone had (a bone no rule names keeps its roll).
C23_TunerIdempotent ==
    pc = "tuned_twice" =>
        /\ metarig_edit_bones = TemplateAfterFirstTuning
        /\ \A i \in DOMAIN metarig_edit_bones :
               metarig_edit_bones[i].roll =
                   RollByName(metarig_edit_bones[i].name, TemplateBeforeTuning[i].roll)

\* a template tuned twice with a finger-named hand bone, which two roll rules name, and
\* an upper arm that got its axis and its segment count
C23_Witness ==
    /\ pc = "tuned_twice"
    /\ \E i, j \in DOMAIN metarig_edit_bones :
          /\ metarig_edit_bones[i].name = "f_hand.L"
          /\ TemplateBeforeTuning[i].roll = 45
          /\ metarig_edit_bones[i].roll = 90
          /\ metarig_edit_bones[j].name = "upper_arm.L"
          /\ metarig_edit_bones[j].rotation_axis = "x"
          /\ metarig_edit_bones[j].segments = 1
          /\ TemplateBeforeTuning[j].segments = 2

(***************************************************************************)
(* The rewriting steps on rigs of any shape: grafting followed by the      *)
(* hierarchy adjustment, on every forest over a few bones of the fixed     *)
(* table, among them forests in which a bone's table parent is one of its  *)
(* descendants.                                                            *)
(***************************************************************************)
ForestNames ==
    <<"J_Bip_C_Hips", "J_Bip_C_UpperChest", "J_Bip_L_Shoulder", "J_Bip_L_UpperArm",
      "J_Bip_C_Head", "J_Adj_L_FaceEye">>

ForestRigs ==
    UNION {{r \in {[i \in DOMAIN names |-> PoseRigBone(i, names[i], par[i], {"DEF"})] :
                     par \in [DOMAIN names -> 0..Len(names)]} : IsForest(r)} :
           names \in {n \in SubSeqsOf(ForestNames) : Len(n) <= MaxHierarchyBones}}

\* a source skeleton with a two-bone chain outside the rig
ForestSource ==
    <<VrmBone("J_Bip_C_Hips", 0, 0, 0), VrmBone("Tail", 0, 0, 1), VrmBone("TailEnd", 0, 0, 2)>>

InitForest ==
    /\ pc = "attach_unmapped_vrm_model_bones_to_rig"
    /\ rig_edit_bones \in ForestRigs
    /\ vrm_object_name = "Armature"
    /\ vrm_bones = ForestSource
    /\ other_bones = <<>>
    /\ vrm_matrix_world = 0
    /\ original_bone_names = <<>>
    /\ bone_name_mapping = <<>>
    /\ bone_mapping = <<>>
    /\ blender_version \in {3, 4}
    /\ vertex_groups = <<>>
    /\ writes = <<>>
    /\ rig_matrix_world = 1
    /\ mode = "OBJECT"
    /\ error = "none"
    /\ steps = <<>>
    /\ IdleRoles /\ IdleMetarig /\ IdleOperator /\ IdleHistory

\* __init__.py line 111
ForestAttach ==
    /\ pc = "attach_unmapped_vrm_model_bones_to_rig"
    /\ rig_edit_bones' = attach_unmapped_vrm_model_bones_to_rig(
                             rig_edit_bones, vrm_bones, bone_name_mapping, blender_version)
    /\ snap' = Append(snap, <<pc, rig_edit_bones>>)
    /\ steps' = Append(steps, pc)
    /\ pc' = "adjust_bone_hierarchy_and_constraints_for_Unity"
    /\ UNCHANGED <<hostVars, roleVars, bone_mapping, sourceVars, restoreVars, metarigVars,
                   mode, error, operatorVars, removed>>

\* __init__.py line 124
ForestAdjust ==
    /\ pc = "adjust_bone_hierarchy_and_constraints_for_Unity"
    /\ LET out == adjust_bone_hierarchy_and_constraints_for_Unity(
                      rig_edit_bones, mode, blender_version)
       IN  /\ rig_edit_bones' = out.bones
           /\ mode' = out.mode
           /\ error' = out.error
    /\ snap' = Append(snap, <<pc, [bones |-> rig_edit_bones, mode |-> mode]>>)
    /\ steps' = Append(steps, pc)
    /\ pc' = "rewritten"
    /\ UNCHANGED <<hostVars, roleVars, bone_mapping, sourceVars, restoreVars, metarigVars,
                   operatorVars, removed>>

NextForest == ForestAttach \/ ForestAdjust

SpecForest == InitForest /\ [][NextForest]_vars

\* the rig between the fixed rewrites (line 857) and the eye reparenting (line 871)
RigAfterTable == ReparentLoop(RigBeforeHierarchy, parent_adjustments, 1).bones

\* the bone named `descendant` has the bone named `ancestor` above it
IsBelow(bones, descendant, ancestor) ==
    /\ HasBone(bones, descendant)
    /\ HasBone(bones, ancestor)
    /\ ParentIndex(bones, bones[IndexOfName(bones, descendant)].id,
                   bones[IndexOfName(bones, ancestor)].id, Len(bones)) # 0

MaxDrivenBones == 2

\* the names bound at the top level of __init__.py when execute runs (lines 19-26 and
\* the classes and functions defined below them)
ModuleGlobals ==
    {"bpy", "Operator", "Panel", "BoolProperty", "StringProperty", "FloatProperty",
     "vrm_rigify", "bone_constraint_utils", "constraint_driver_utils", "VRM_OT_ToRigify",
     "VRM_OT_ToggleConstraintDrivers", "VRM_PT_ToRigifyPanel", "bl_info",
     "register_properties", "unregister_properties", "classes", "register", "unregister"}

Constraint(driven) == [type |-> "COPY_TRANSFORMS", subtarget |-> "", driven |-> driven]

\* constraint_driver_utils.py lines 63-108 and 150-180: every constraint of every bone
\* of the DEF collection gets `driven`; the result names the bones with a constraint
DriveLoop(bones, driven) ==
    [bones |-> [i \in DOMAIN bones |->
                   IF "DEF" \in bones[i].collections
                     THEN [bones[i] EXCEPT !.constraints =
                              [k \in DOMAIN @ |-> [@[k] EXCEPT !.driven = driven]]]
                     ELSE bones[i]],
     result |-> {bones[i].name : i \in {j \in DOMAIN bones :
                                          /\ "DEF" \in bones[j].collections
                                          /\ bones[j].constraints # <<>>}},
     error |-> "none"]

\* the function reads armature.data.collections (lines 48 and 140), which the hosts
\* before version 4 do not have
DriversOf(bones, version, driven) ==
    IF version <= 3 THEN [bones |-> bones, result |-> {}, error |-> "AttributeError"]
    ELSE IF "DEF" \notin CollectionsOf(bones)
      THEN [bones |-> bones, result |-> {}, error |-> "none"]
    ELSE DriveLoop(bones, driven)

\* constraint_driver_utils.py lines 12-111
add_constraint_influence_drivers(bones, version) == DriversOf(bones, version, TRUE)

\* constraint_driver_utils.py lines 114-186
remove_constraint_influence_drivers(bones, version) == DriversOf(bones, version, FALSE)

\* vrm_rigify.py lines 901-931: the value returned is bool(result)
setup_rig_constraint_drivers(bones, version) == add_constraint_influence_drivers(bones, version)

\* __init__.py lines 189-205; report is "" and result "none" when an exception leaves
\* the function
ToggleExecute(bones, version, op_mode) ==
    LET called == IF op_mode = "ADD"
                    THEN IF "setup_constraint_drivers" \in ModuleGlobals
                           THEN setup_rig_constraint_drivers(bones, version)
                           ELSE [bones |-> bones, result |-> {}, error |-> "NameError"]
                    ELSE remove_constraint_influence_drivers(bones, version)
    IN  [bones |-> called.bones,
         error |-> called.error,
         report |-> IF called.error # "none" THEN ""
                    ELSE IF called.result # {} THEN "INFO" ELSE "WARNING",
         result |-> IF called.error # "none" THEN "none" ELSE "FINISHED"]

\* armatures of up to MaxDrivenBones bones, each in the DEF collection or not, with no
\* constraint or one, driven or not
DrivenRigs ==
    UNION {{[i \in 1..n |->
                [RigBone(i, "Bone" \o ToString(i), i - 1, TRUE)
                    EXCEPT !.collections = IF k[i] >= 3 THEN {"DEF"} ELSE {},
                           !.constraints = IF k[i] \in {0, 3} THEN <<>>
                                           ELSE <<Constraint(k[i] \in {2, 5})>>]] :
              k \in [1..n -> 0..5]} : n \in 1..MaxDrivenBones}

InitToggle ==
    /\ pc = "VRM_OT_ToggleConstraintDrivers.execute"
    /\ rig_edit_bones \in DrivenRigs
    /\ blender_version \in {3, 4}
    /\ vertex_groups = <<>>
    /\ writes = <<>>
    /\ rig_matrix_world = 1
    /\ bone_mapping = <<>>
    /\ mode = "OBJECT"
    /\ error = "none"
    /\ steps = <<>>
    /\ IdleRoles /\ IdleSource /\ IdleMetarig /\ IdleOperator /\ IdleHistory

\* __init__.py lines 189-205; the mode property is a string the caller sets
Toggle ==
    /\ pc = "VRM_OT_ToggleConstraintDrivers.execute"
    /\ \E op_mode \in {"ADD", "REMOVE", ""} :
         LET out == ToggleExecute(rig_edit_bones, blender_version, op_mode)
         IN  /\ rig_edit_bones' = out.bones
             /\ error' = out.error
             /\ reports' = IF out.report = "" THEN reports ELSE Append(reports, out.report)
             /\ result' = out.result
             /\ snap' = Append(snap, <<pc, [mode |-> op_mode, bones |-> rig_edit_bones]>>)
    /\ steps' = Append(steps, pc)
    /\ pc' = "toggled"
    /\ UNCHANGED <<hostVars, roleVars, bone_mapping, sourceVars, restoreVars, metarigVars,
                   mode, removed>>

NextToggle == Toggle

SpecToggle == InitToggle /\ [][NextToggle]_vars

ToggleCall == Before("VRM_OT_ToggleConstraintDrivers.execute")

\* the constraints of the DEF bones of an armature
DefConstraints(bones) ==
    {<<i, k>> \in (DOMAIN bones) \X (1..MaxDrivenBones) :
        "DEF" \in bones[i].collections /\ k \in DOMAIN bones[i].constraints}

\* C29: on an active armature with a DEF collection the toggle operator returns
\* FINISHED in both modes, on the hosts that have bone collections: with mode ADD every
\* constraint of a DEF bone is driven afterwards, with any other mode none is, and the
\* one report is INFO when there was such a constraint and WARNING when there was none.
C29_ToggleFinishes ==
    (pc = "toggled" /\ blender_version >= 4) =>
        /\ error = "none"
        /\ result = "FINISHED"
        /\ "DEF" \in CollectionsOf(rig_edit_bones) =>
              \A c \in DefConstraints(rig_edit_bones) :
                  rig_edit_bones[c[1]].constraints[c[2]].driven = (ToggleCall.mode = "ADD")
        /\ reports = IF DefConstraints(ToggleCall.bones) # {} THEN <<"INFO">>
                     ELSE <<"WARNING">>

(***************************************************************************)
(* The operator: VRM_OT_ToRigify.execute.                                  *)
(*                                                                         *)
(* pc names the function that runs next.  A function that raises leaves    *)
(* what it has written and hands control to the except clause; the mode    *)
(* scopes of the functions restore the mode on the way out.  Every call of *)
(* the try block is entered in `steps` when it runs.  The two debug        *)
(* functions only print and are left out.                                  *)
(***************************************************************************)
TuningSteps ==
    <<"adjust_position_of_metarig_spine_bones", "Modify_metarig_limb_rotation_axes",
      "modify_metarig_arm_hand_finger_rotation", "modify_metarig_limb_segments">>

RewritingSteps ==
    <<"attach_unmapped_vrm_model_bones_to_rig", "copy_shape_key_controls_from_vrm_armature",
      "modify_rigify_rig_eyes_control_bones", "disable_ik_stretching", "show_ik_toggle_pole",
      "copy_meshes_between_armatures", "change_meshes_modifier_object",
      "adjust_bone_hierarchy_and_constraints_for_Unity", "restore_original_bone_names",
      "setup_rig_constraint_drivers", "copy_vrm_extension_from_armature">>

\* __init__.py lines 74-137 with the calls in the order of lines 106 and 111 exchanged
ExecOrderGraftFirst ==
    <<"store_original_bone_names", "rename_vrm_model_bones_name",
      "update_bone_name_mapping_after_rename", "generate_template_metarig",
      "mapping_metarig_and_vrm_model_bones", "remove_or_log_unmapped_metarig_bones",
      "position_metarig_bones_to_vrm_model">>
    \o TuningSteps
    \o <<"generate_rigify_rig", "removed_rigify_rig_facial_bones",
         "attach_unmapped_vrm_model_bones_to_rig",
         "rename_rig_bones_to_match_vrm_model_vertex_groups">>
    \o SubSeq(RewritingSteps, 2, Len(RewritingSteps))
    \o <<"finish">>

\* __init__.py lines 74-137, in the order of the calls
ExecOrder ==
    <<"store_original_bone_names", "rename_vrm_model_bones_name",
      "update_bone_name_mapping_after_rename", "generate_template_metarig",
      "mapping_metarig_and_vrm_model_bones", "remove_or_log_unmapped_metarig_bones",
      "position_metarig_bones_to_vrm_model">>
    \o TuningSteps
    \o <<"generate_rigify_rig", "removed_rigify_rig_facial_bones",
         "rename_rig_bones_to_match_vrm_model_vertex_groups">>
    \o RewritingSteps
    \o <<"finish">>

StepAfter(step) ==
    ExecOrder[(CHOOSE i \in DOMAIN ExecOrder : ExecOrder[i] = step) + 1]

\* a try block whose handler resumes with the following call
LeaveResuming(step, err) == StepAfter(step)

\* where control goes when `step` ends with the exception `err`, or with none
Leave(step, err) == IF err = "none" THEN StepAfter(step) ELSE "except"

ExecTemplate ==
    <<MetarigBone("spine", 0, 0), MetarigBone("spine.001", 0, 0), MetarigBone("spine.004", 0, 0),
      MetarigBone("spine.006", 0, 0), MetarigBone("pelvis.L", 0, 0),
      MetarigBone("palm.01.L", 0, 0)>>

\* the source skeletons of the runs: a chain of three bones, the third of them outside
\* the humanoid roles; in the last one the hips bone is called as the standardization
\* will call the bone after it
ExecSources ==
    {[i \in 1..3 |-> VrmBone(ns[i], 0, 0, i - 1)] :
        ns \in {<<"J_Hips", "J_Spine", "J_Adj_L_FaceEye">>, <<"hips", "root", "Ribbon">>,
                <<"Spine", "Chest", "Ribbon">>}}

\* the standardization keeps the names or gives the humanoid bones their standard names
ExecStandardizations(bones) ==
    {bones,
     [i \in DOMAIN bones |->
         IF i <= 2 THEN [bones[i] EXCEPT !.name = <<"Hips", "Spine">>[i]] ELSE bones[i]]}

\* role assignments of the runs: hips and spine assigned or not, head on no bone
ExecRoleMaps(names) ==
    {BuildRoleMap(c, names, 1, <<>>) \o BookkeepingEntries :
        c \in {d \in RoleChoices : d["head"] = "empty" /\ d["hips"] # "unset" /\ d["spine"] # "unset"}}

\* the eye controls of a generated rig: none, the reference bones apart from each
\* other, or eye.L on the centre plane
ExecFaces == {"none", "apart", "centred"}

FaceBones(first, face) ==
    IF face = "none" THEN <<>>
    ELSE LET x == IF face = "apart" THEN 1 ELSE 0
         IN  <<EyeBone(first, "master_eye.L", Point(1, 0, 1), Point(2, 1, 2), Whole(1)),
               EyeBone(first + 1, "eye.L", Point(x, 1, 0), Point(x, 0, 0), Whole(1)),
               EyeBone(first + 2, "eye.R", Point(0 - x, 1, 0), Point(0 - x, 0, 0), Whole(1)),
               EyeBone(first + 3, "eyes", Point(0, 0 - 2, 0), Point(0, 0 - 2, 1), Whole(1))>>

\* the generated rig: a root, for template bone X a bone ORG-X and a bone DEF-X, and
\* the eye controls; `off` is the position of a template bone whose DEF- bone got no
\* deform flag, or 0
GeneratedRig(template, off, face) ==
    [i \in 1..(2 * Len(template) + 1) |->
        IF i = 1 THEN RigBone(1, "root", 0, FALSE)
        ELSE IF i % 2 = 0
          THEN RigBone(i, "ORG-" \o template[i \div 2].name, IF i = 2 THEN 1 ELSE i - 2, FALSE)
          ELSE RigBone(i, "DEF-" \o template[i \div 2].name, i - 1, (i \div 2) # off)]
    \o FaceBones(2 * Len(template) + 2, face)

\* the values hash() can have in one interpreter run: all names in one residue class,
\* or the names spread over the classes
ExecHashes(names) ==
    {[n \in Range(names) |-> 0],
     [n \in Range(names) |-> CHOOSE i \in DOMAIN names : names[i] = n]}

SourceNameTaken(bones, i, name) == \E j \in DOMAIN bones : j # i /\ bones[j].name = name

RECURSIVE RestoreLoop(_, _, _)
\* lines 193-196
RestoreLoop(bones, values, i) ==
    IF i > Len(bones) THEN bones
    ELSE IF i <= Len(values)
      THEN RestoreLoop([bones EXCEPT ![i].name =
                           IF SourceNameTaken(bones, i, values[i]) THEN values[i] \o ".001"
                           ELSE values[i]],
                       values, i + 1)
      ELSE RestoreLoop(bones, values, i + 1)

\* lines 181-196
restore_original_bone_names(bones, original) == RestoreLoop(bones, DictValues(original), 1)

InitExec ==
    /\ pc = "store_original_bone_names"
    /\ vrm_object_name \in {"Armature", "Avatar"}
    /\ vrm_bones \in ExecSources
    /\ other_bones = <<>>
    /\ vrm_matrix_world = 1
    /\ original_bone_names = <<>>
    /\ bone_name_mapping = <<>>
    /\ bone_mapping = <<>>
    /\ blender_version \in {3, 4}
    /\ vertex_groups = <<>>
    /\ writes = <<>>
    /\ rig_matrix_world = 1
    /\ mode = "OBJECT"
    /\ error = "none"
    /\ steps = <<>>
    /\ IdleRoles /\ IdleMetarig /\ IdleRig /\ IdleOperator /\ IdleHistory

\* line 74
ExecStore ==
    /\ pc = "store_original_bone_names"
    /\ original_bone_names' = store_original_bone_names(vrm_bones)
    /\ snap' = Append(snap, <<pc, vrm_bones>>)
    /\ steps' = Append(steps, pc)
    /\ pc' = Leave(pc, "none")
    /\ UNCHANGED <<hostVars, roleVars, bone_mapping, sourceVars, bone_name_mapping, metarigVars,
                   rig_edit_bones, mode, error, operatorVars, removed>>

\* line 77
ExecStandardize ==
    /\ pc = "rename_vrm_model_bones_name"
    /\ IF vrm_object_name = "Armature"
         THEN vrm_bones' \in ExecStandardizations(vrm_bones)
         ELSE UNCHANGED vrm_bones
    /\ steps' = Append(steps, pc)
    /\ pc' = Leave(pc, "none")
    /\ UNCHANGED <<hostVars, roleVars, bone_mapping, vrm_object_name, other_bones, vrm_matrix_world,
                   restoreVars, metarigVars, rig_edit_bones, mode, error, operatorVars,
                   histVars>>

\* lines 80-81
ExecUpdateMapping ==
    /\ pc = "update_bone_name_mapping_after_rename"
    /\ bone_name_mapping' = update_bone_name_mapping_after_rename(vrm_bones, original_bone_names)
    /\ steps' = Append(steps, pc)
    /\ pc' = Leave(pc, "none")
    /\ UNCHANGED <<hostVars, roleVars, bone_mapping, sourceVars, original_bone_names, metarigVars,
                   rig_edit_bones, mode, error, operatorVars, histVars>>

\* lines 87-88; vrm_rigify.py lines 114-122: without Rigify the call raises
ExecGenerateTemplate ==
    /\ pc = "generate_template_metarig"
    /\ \/ /\ metarig_edit_bones' = ExecTemplate
          /\ error' = "none"
       \/ /\ UNCHANGED metarig_edit_bones
          /\ error' = "Exception"
    /\ steps' = Append(steps, pc)
    /\ pc' = Leave(pc, error')
    /\ UNCHANGED <<hostVars, roleVars, bone_mapping, sourceVars, restoreVars, metarig_matrix_world,
                   rig_edit_bones, mode, operatorVars, histVars>>

\* line 91
ExecMapping ==
    /\ pc = "mapping_metarig_and_vrm_model_bones"
    /\ \E m \in ExecRoleMaps(MetarigRoleBone),
          v \in ExecRoleMaps([hips |-> vrm_bones[1].name, spine |-> vrm_bones[2].name,
                              head |-> ""]) :
         /\ metarig_human_bones' = m
         /\ vrm_human_bones' = v
         /\ bone_mapping' = mapping_metarig_and_vrm_model_bones(m, v)
    /\ steps' = Append(steps, pc)
    /\ pc' = Leave(pc, "none")
    /\ UNCHANGED <<hostVars, sourceVars, restoreVars, metarigVars, rig_edit_bones, mode, error,
                   operatorVars, histVars>>

\* line 92
ExecPrune ==
    /\ pc = "remove_or_log_unmapped_metarig_bones"
    /\ LET out == remove_or_log_unmapped_metarig_bones(metarig_edit_bones, bone_mapping, removed)
       IN  /\ metarig_edit_bones' = out.bones
           /\ removed' = out.removed
    /\ mode' = ModeContextExit(mode, "EDIT", "none")
    /\ snap' = Append(snap, <<pc, metarig_edit_bones>>)
    /\ steps' = Append(steps, pc)
    /\ pc' = Leave(pc, "none")
    /\ UNCHANGED <<hostVars, roleVars, bone_mapping, sourceVars, restoreVars, metarig_matrix_world,
                   rig_edit_bones, error, operatorVars>>

\* line 93
ExecPosition ==
    /\ pc = "position_metarig_bones_to_vrm_model"
    /\ LET out == position_metarig_bones_to_vrm_model(metarig_edit_bones, vrm_bones, bone_mapping)
       IN  /\ metarig_edit_bones' = out.bones
           /\ error' = out.error
    /\ metarig_matrix_world' = vrm_matrix_world
    /\ mode' = ModeContextExit(mode, "EDIT", error')
    /\ snap' = Append(snap, <<pc, metarig_edit_bones>>)
    /\ steps' = Append(steps, pc)
    /\ pc' = Leave(pc, error')
    /\ UNCHANGED <<hostVars, roleVars, bone_mapping, sourceVars, restoreVars, rig_edit_bones,
                   operatorVars, removed>>

\* lines 96-99; vrm_rigify.py lines 371-372 look spine.004 up by name, the other three
\* functions address the bones the template has
ExecTune ==
    /\ pc \in Range(TuningSteps)
    /\ error' = IF pc = "adjust_position_of_metarig_spine_bones"
                   /\ ~HasBone(metarig_edit_bones, "spine.004")
                  THEN "KeyError" ELSE "none"
    /\ mode' = ModeContextExit(mode, "EDIT", error')
    /\ steps' = Append(steps, pc)
    /\ pc' = Leave(pc, error')
    /\ UNCHANGED <<hostVars, roleVars, bone_mapping, sourceVars, restoreVars, metarigVars,
                   rig_edit_bones, operatorVars, histVars>>

\* line 102; vrm_rigify.py line 455: the generator raises when it rejects the template
ExecGenerateRig ==
    /\ pc = "generate_rigify_rig"
    /\ \/ /\ \E off \in 0..Len(bone_mapping), face \in ExecFaces :
               rig_edit_bones' = GeneratedRig(metarig_edit_bones, off, face)
          /\ error' = "none"
       \/ /\ UNCHANGED rig_edit_bones
          /\ error' = "RuntimeError"
    /\ steps' = Append(steps, pc)
    /\ pc' = Leave(pc, error')
    /\ UNCHANGED <<hostVars, roleVars, bone_mapping, sourceVars, restoreVars, metarigVars, mode,
                   operatorVars, histVars>>

\* line 105
ExecFacial ==
    /\ pc = "removed_rigify_rig_facial_bones"
    /\ LET out == removed_rigify_rig_facial_bones(rig_edit_bones, removed)
       IN  /\ rig_edit_bones' = out.bones
           /\ removed' = out.removed
           /\ error' = out.error
    /\ mode' = ModeContextExit(mode, "EDIT", error')
    /\ snap' = Append(snap, <<pc, rig_edit_bones>>)
    /\ steps' = Append(steps, pc)
    /\ pc' = Leave(pc, error')
    /\ UNCHANGED <<hostVars, roleVars, bone_mapping, sourceVars, restoreVars, metarigVars,
                   operatorVars>>

\* line 106
ExecRename ==
    /\ pc = "rename_rig_bones_to_match_vrm_model_vertex_groups"
    /\ LET out == rename_rig_bones_to_match_vrm_model_vertex_groups(
                      rig_edit_bones, bone_mapping, bone_name_mapping)
       IN  /\ rig_edit_bones' = out.bones
           /\ error' = out.error
    /\ mode' = ModeContextExit(mode, "EDIT", error')
    /\ snap' = Append(snap, <<pc, rig_edit_bones>>)
    /\ steps' = Append(steps, pc)
    /\ pc' = Leave(pc, error')
    /\ UNCHANGED <<hostVars, roleVars, bone_mapping, sourceVars, restoreVars, metarigVars,
                   operatorVars, removed>>

\* line 111
ExecAttach ==
    /\ pc = "attach_unmapped_vrm_model_bones_to_rig"
    /\ rig_edit_bones' = attach_unmapped_vrm_model_bones_to_rig(
                             rig_edit_bones, vrm_bones, bone_name_mapping, blender_version)
    /\ mode' = ModeContextExit(mode, "EDIT", "none")
    /\ snap' = Append(snap, <<pc, rig_edit_bones>>)
    /\ steps' = Append(steps, pc)
    /\ pc' = Leave(pc, "none")
    /\ UNCHANGED <<hostVars, roleVars, bone_mapping, sourceVars, restoreVars, metarigVars,
                   error, operatorVars, removed>>

\* lines 112 and 117: vrm_rigify.py lines 619 and 730 look a key up that the armature
\* may not have
ExecLookup ==
    /\ pc \in {"copy_shape_key_controls_from_vrm_armature", "show_ik_toggle_pole"}
    /\ error' \in {"none", "KeyError"}
    /\ steps' = Append(steps, pc)
    /\ pc' = Leave(pc, error')
    /\ UNCHANGED <<hostVars, roleVars, bone_mapping, sourceVars, restoreVars, metarigVars,
                   rig_edit_bones, mode, operatorVars, histVars>>

\* line 115
ExecEyes ==
    /\ pc = "modify_rigify_rig_eyes_control_bones"
    /\ LET out == modify_rigify_rig_eyes_control_bones(rig_edit_bones, rig_matrix_world)
       IN  /\ rig_edit_bones' = out.bones
           /\ error' = out.error
           /\ snap' = Append(snap, <<pc, rig_edit_bones>>) \o out.locals
    /\ mode' = ModeContextExit(mode, "EDIT", error')
    /\ steps' = Append(steps, pc)
    /\ pc' = Leave(pc, error')
    /\ UNCHANGED <<hostVars, roleVars, bone_mapping, sourceVars, restoreVars, metarigVars,
                   operatorVars, removed>>

\* lines 116, 121 and 134-137: the functions write properties the model does not hold;
\* line 134 reads the operator's copy_vrm_settings property
ExecSettings ==
    /\ pc \in {"disable_ik_stretching", "change_meshes_modifier_object",
               "copy_vrm_extension_from_armature"}
    /\ \E copy_vrm_settings \in BOOLEAN :
         steps' = IF pc = "copy_vrm_extension_from_armature" /\ ~copy_vrm_settings
                    THEN steps ELSE Append(steps, pc)
    /\ pc' = Leave(pc, "none")
    /\ UNCHANGED <<hostVars, roleVars, bone_mapping, sourceVars, restoreVars, metarigVars,
                   rig_edit_bones, mode, error, operatorVars, histVars>>

\* line 120: the copy of the mesh has one vertex group for each source bone, named as
\* the bone is named now
ExecCopyMeshes ==
    /\ pc = "copy_meshes_between_armatures"
    /\ \E hash \in ExecHashes(BoneNames(vrm_bones)) :
         LET out == update_vertex_groups_to_original_names(
                        [i \in DOMAIN vrm_bones |-> VertexGroup(i, vrm_bones[i].name)],
                        bone_name_mapping, hash, writes)
         IN  /\ vertex_groups' = out.groups
             /\ writes' = out.writes
    /\ steps' = Append(steps, pc)
    /\ pc' = Leave(pc, "none")
    /\ UNCHANGED <<blender_version, rig_matrix_world, roleVars, bone_mapping, sourceVars,
                   restoreVars, metarigVars, rig_edit_bones, mode, error, operatorVars,
                   histVars>>

\* line 124
ExecHierarchy ==
    /\ pc = "adjust_bone_hierarchy_and_constraints_for_Unity"
    /\ LET out == adjust_bone_hierarchy_and_constraints_for_Unity(
                      rig_edit_bones, mode, blender_version)
       IN  /\ rig_edit_bones' = out.bones
           /\ mode' = out.mode
           /\ error' = out.error
    /\ snap' = Append(snap, <<pc, [bones |-> rig_edit_bones, mode |-> mode]>>)
    /\ steps' = Append(steps, pc)
    /\ pc' = Leave(pc, error')
    /\ UNCHANGED <<hostVars, roleVars, bone_mapping, sourceVars, restoreVars, metarigVars,
                   operatorVars, removed>>

\* line 127
ExecRestore ==
    /\ pc = "restore_original_bone_names"
    /\ vrm_bones' = restore_original_bone_names(vrm_bones, original_bone_names)
    /\ mode' = ModeContextExit(mode, "EDIT", "none")
    /\ steps' = Append(steps, pc)
    /\ pc' = Leave(pc, "none")
    /\ UNCHANGED <<hostVars, roleVars, bone_mapping, vrm_object_name, other_bones,
                   vrm_matrix_world, restoreVars, metarigVars, rig_edit_bones, error,
                   operatorVars, histVars>>

\* lines 130-131; constraint_driver_utils.py line 48 reads armature.data.collections,
\* which the hosts before version 4 do not have
ExecDrivers ==
    /\ pc = "setup_rig_constraint_drivers"
    /\ \E setup_constraint_drivers \in BOOLEAN :
         IF setup_constraint_drivers
           THEN /\ error' = IF blender_version <= 3 THEN "AttributeError" ELSE "none"
                /\ steps' = Append(steps, pc)
           ELSE UNCHANGED <<error, steps>>
    /\ pc' = Leave(pc, error')
    /\ UNCHANGED <<hostVars, roleVars, bone_mapping, sourceVars, restoreVars, metarigVars,
                   rig_edit_bones, mode, operatorVars, histVars>>

\* lines 141-162
ExecFinish ==
    /\ pc = "finish"
    /\ reports' = Append(reports, "INFO")
    /\ result' = "FINISHED"
    /\ pc' = "done"
    /\ UNCHANGED <<hostVars, roleVars, bone_mapping, sourceVars, restoreVars, metarigVars,
                   rig_edit_bones, mode, error, steps, histVars>>

\* lines 164-166
ExecExcept ==
    /\ pc = "except"
    /\ reports' = Append(reports, "ERROR")
    /\ result' = "CANCELLED"
    /\ pc' = "done"
    /\ UNCHANGED <<hostVars, roleVars, bone_mapping, sourceVars, restoreVars, metarigVars,
                   rig_edit_bones, mode, error, steps, histVars>>

NextExec ==
    \/ ExecStore \/ ExecStandardize \/ ExecUpdateMapping \/ ExecGenerateTemplate
    \/ ExecMapping \/ ExecPrune \/ ExecPosition \/ ExecTune \/ ExecGenerateRig
    \/ ExecFacial \/ ExecRename \/ ExecAttach \/ ExecLookup \/ ExecEyes \/ ExecSettings
    \/ ExecCopyMeshes \/ ExecHierarchy \/ ExecRestore \/ ExecDrivers \/ ExecFinish
    \/ ExecExcept

SpecExec == InitExec /\ [][NextExec]_vars

\* C10: if a non-eye pair's DEF- bone has its deform flag off, the rename step aborts
\* at that pair: that bone and the bones of later pairs keep their generated names, no
\* later pipeline step runs, the operator reports one error and returns CANCELLED, and
\* the bones renamed by earlier pairs keep their new names.
C10_DeformFlagOffAborts ==
    (pc = "done" /\ HasRun(RenameStep)) =>
        \A k \in DOMAIN bone_mapping :
            (FlagOffAt(k) /\ PassBefore(k)) =>
                /\ \A j \in k..Len(bone_mapping) :
                       AddressedAt(j) # 0 => NameNowOf(j) = RigBeforeRename[AddressedAt(j)].name
                /\ \A j \in 1..(k - 1) :
                       /\ NameNowOf(j) # RigBeforeRename[AddressedAt(j)].name
                       /\ \/ NameNowOf(j) = ExpectedName(bone_mapping[j][2])
                          \/ StartsWith(NameNowOf(j), ExpectedName(bone_mapping[j][2]) \o ".")
                /\ steps[Len(steps)] = RenameStep
                /\ Range(steps) \cap Range(RewritingSteps) = {}
                /\ reports = <<"ERROR">>
                /\ result = "CANCELLED"

\* a run cancelled at the second pair after the first pair's bone was renamed
C10_Witness ==
    /\ pc = "done"
    /\ HasRun(RenameStep)
    /\ error = "AssertionError"
    /\ \E k \in DOMAIN bone_mapping :
          /\ k > 1
          /\ FlagOffAt(k)
          /\ PassBefore(k)
          /\ NameNowOf(1) # RigBeforeRename[AddressedAt(1)].name

\* what the steps write: every variable but the control position and the operator's
\* reports and return value
pipelineVars ==
    <<hostVars, roleVars, bone_mapping, sourceVars, restoreVars, metarigVars, rig_edit_bones,
      mode, steps, histVars>>

\* the calls of the try block that no operator property switches off
MandatorySteps ==
    Range(ExecOrder) \ {"setup_rig_constraint_drivers", "copy_vrm_extension_from_armature",
                        "finish"}

\* the calls that follow `step` in the try block
StepsFollowing(step) ==
    {ExecOrder[j] : j \in {k \in DOMAIN ExecOrder :
                              \E i \in DOMAIN ExecOrder : ExecOrder[i] = step /\ k > i}}

\* C19: whatever step raises, control is in the except clause and nowhere else: the
\* run ends with exactly one ERROR report and CANCELLED, the failing step is the last
\* one that ran, and from the moment of the exception on nothing the steps wrote is
\* changed; a run ends with FINISHED and one INFO report only when no step raised and
\* every call of the try block ran.
C19_ExceptionBecomesOneErrorReport ==
    /\ [](/\ error # "none" =>
               /\ pc \in {"except", "done"}
               /\ steps # <<>>
               /\ StepsFollowing(steps[Len(steps)]) \cap Range(steps) = {}
          /\ pc # "done" => reports = <<>> /\ result = "none"
          /\ (pc = "done" /\ error # "none") =>
               reports = <<"ERROR">> /\ result = "CANCELLED"
          /\ (pc = "done" /\ error = "none") =>
               reports = <<"INFO">> /\ result = "FINISHED"
          /\ result = "FINISHED" => error = "none" /\ MandatorySteps \subseteq Range(steps))
    /\ [][error # "none" => UNCHANGED <<pipelineVars, error>>]_vars

\* a run cancelled by the eye derivation, with the bone the grafting step added still
\* in the rig
C19_Witness ==
    /\ pc = "done"
    /\ error = "ZeroDivisionError"
    /\ result = "CANCELLED"
    /\ steps[Len(steps)] = "modify_rigify_rig_eyes_control_bones"
    /\ Grafted # {}

\* C20: the named steps of a run occur in the order of the list and no step of the run
\* is repeated; the rig is generated at most once, and exactly once in a run that
\* returns FINISHED; once built, the correspondence list and the restoration map keep
\* their value.
C20_StepsInOrderMapsKept ==
    /\ [](LET claimed == <<"store_original_bone_names", "rename_vrm_model_bones_name",
                           "update_bone_name_mapping_after_rename",
                           "generate_template_metarig",
                           "mapping_metarig_and_vrm_model_bones",
                           "remove_or_log_unmapped_metarig_bones",
                           "position_metarig_bones_to_vrm_model",
                           "adjust_position_of_metarig_spine_bones",
                           "Modify_metarig_limb_rotation_axes",
                           "modify_metarig_arm_hand_finger_rotation",
                           "modify_metarig_limb_segments",
                           "generate_rigify_rig", "removed_rigify_rig_facial_bones",
                           "rename_rig_bones_to_match_vrm_model_vertex_groups",
                           "attach_unmapped_vrm_model_bones_to_rig",
                           "modify_rigify_rig_eyes_control_bones",
                           "copy_meshes_between_armatures",
                           "adjust_bone_hierarchy_and_constraints_for_Unity">>
              seen == SelectSeq(steps, LAMBDA s : s \in Range(claimed))
          IN  /\ Len(seen) <= Len(claimed)
              /\ \A i \in DOMAIN seen : seen[i] = claimed[i]
              /\ IsInjective(steps)
              /\ result = "FINISHED" => Range(claimed) \subseteq Range(steps))
    /\ [][/\ HasRun("mapping_metarig_and_vrm_model_bones") => bone_mapping' = bone_mapping
          /\ HasRun("update_bone_name_mapping_after_rename") =>
                 bone_name_mapping' = bone_name_mapping]_vars

\* a finished run in which both maps have entries and the source skeleton went through
\* standardization and restoration
C20_Witness ==
    /\ pc = "done"
    /\ result = "FINISHED"
    /\ Len(bone_mapping) = 2
    /\ Len(bone_name_mapping) = 3
    /\ \E i \in DOMAIN bone_name_mapping : bone_name_mapping[i][1] # bone_name_mapping[i][2]
    /\ HasRun("copy_vrm_extension_from_armature")

\* C25: after a run that returned FINISHED every bone of the source skeleton carries
\* the name it had when the run began: the i-th bone has the i-th recorded name, also
\* when that name was, at the time of the restoration, the standardized name of a bone
\* at a later position.
C25_SourceNamesRoundTrip ==
    (pc = "done" /\ result = "FINISHED") =>
        /\ Len(vrm_bones) = Len(RecordedBones)
        /\ \A i \in DOMAIN vrm_bones : vrm_bones[i].name = RecordedBones[i].name

\* C30: when position_metarig_bones_to_vrm_model has run after the pruning, every
\* template bone named in the correspondence list was in the pruned template and every
\* source bone named in it was in the source skeleton, and the positioning ended
\* without a missing-bone error.
C30_PositionFindsEveryPair ==
    (steps # <<>> /\ steps[Len(steps)] = "position_metarig_bones_to_vrm_model") =>
        /\ \A k \in DOMAIN bone_mapping :
              /\ HasBone(Before("position_metarig_bones_to_vrm_model"), bone_mapping[k][1])
              /\ HasBone(vrm_bones, bone_mapping[k][2])
        /\ error = "none"

====
